---------------------------- MODULE Spec2Model ----------------------------
(***************************************************************************)
(* A model of the text-processing core of eWriter: the Speaker Segmenter   *)
(* (processSpeakerSegments), the Entity Extractor (extractPharmacyEntities *)
(* of lib/utils) and the copy of the extractor the transcription view      *)
(* runs.  Strings are TLA+ strings; a character is a string of length 1    *)
(* and offsets are 0-based as in JavaScript.  Each component has its own   *)
(* specification (SegmenterSpec, ExtractorSpec, CallsSpec, ViewSpec); the  *)
(* variables of the components a specification does not run stay idle.     *)
(***************************************************************************)
EXTENDS Integers, Sequences, FiniteSets, TLC

(***************************************************************************)
(* JavaScript string primitives                                            *)
(***************************************************************************)

\* s.substring(a, b)
Sub(s, a, b) == SubSeq(s, a + 1, b)

\* s[p]
CharAt(s, p) == SubSeq(s, p + 1, p + 1)

UpperLetters == "ABCDEFGHIJKLMNOPQRSTUVWXYZ"

LowerLetters == "abcdefghijklmnopqrstuvwxyz"

UpperSet == {CharAt(UpperLetters, j) : j \in 0..25}

LowerMap == [c \in UpperSet |->
               CharAt(LowerLetters, CHOOSE j \in 0..25 : CharAt(UpperLetters, j) = c)]

LowerChar(c) == IF c \in UpperSet THEN LowerMap[c] ELSE c

\* s.toLowerCase()
ToLowerCase(s) ==
  LET F[n \in 0..Len(s)] ==
        IF n = 0 THEN "" ELSE F[n - 1] \o LowerChar(CharAt(s, n - 1))
  IN  F[Len(s)]

\* The characters String.prototype.trim strips and \s matches.
WhiteSpace == {" ", "\n", "\t", "\r"}

\* The characters the regular-expression dot does not match (no s flag).
LineTerminators == {"\n", "\r"}

Digits == {"0", "1", "2", "3", "4", "5", "6", "7", "8", "9"}

\* s.trim()
Trim(s) ==
  LET inner == {p \in 0..(Len(s) - 1) : CharAt(s, p) \notin WhiteSpace}
  IN  IF inner = {} THEN ""
      ELSE Sub(s, CHOOSE p \in inner : \A q \in inner : p <= q,
                  (CHOOSE p \in inner : \A q \in inner : q <= p) + 1)

\* hay.includes(needle)
Includes(hay, needle) ==
  \E p \in 0..(Len(hay) - Len(needle)) : Sub(hay, p, p + Len(needle)) = needle

(***************************************************************************)
(* Regular expressions, as a backtracking matcher.  Ends(re, s, p) is the  *)
(* sequence of offsets at which a match of re that starts at offset p of s *)
(* can end, in the order in which backtracking tries them; the first is    *)
(* the match the engine reports.  The i flag compares canonicalized        *)
(* characters: FoldCase maps the literals of a pattern, and the matchers   *)
(* below the subject, to one case.                                         *)
(***************************************************************************)
Lit(w) == [k |-> "lit", w |-> w]

Cls(set) == [k |-> "cls", set |-> set]

Dot == [k |-> "dot"]

Bol == [k |-> "bol"]

Alt(rs) == [k |-> "alt", rs |-> rs]

Cat(rs) == [k |-> "cat", rs |-> rs]

Plus(r) == [k |-> "plus", r |-> r]

Star(r) == [k |-> "star", r |-> r]

LazyStar(r) == [k |-> "lazy", r |-> r]

RECURSIVE FoldCase(_)
FoldCase(re) ==
  CASE re.k = "lit" -> Lit(ToLowerCase(re.w))
    [] re.k \in {"alt", "cat"} ->
         [k |-> re.k, rs |-> [j \in 1..Len(re.rs) |-> FoldCase(re.rs[j])]]
    [] OTHER -> re

\* Whether the one-character pattern r (a class or the dot) matches c.
CharMatches(r, c) ==
  IF r.k = "cls" THEN c \in r.set ELSE c \notin LineTerminators

\* The end of the longest run of characters matching r from offset p.
RunStop(r, s, p) ==
  LET stops == {q \in p..Len(s) : q = Len(s) \/ ~CharMatches(r, CharAt(s, q))}
  IN  CHOOSE q \in stops : \A x \in stops : q <= x

RECURSIVE Ends(_, _, _)
RECURSIVE EndsFrom(_, _, _)
RECURSIVE EndsAlt(_, _, _)
RECURSIVE EndsCat(_, _, _)

\* Every end of re from each start of starts, in order.
EndsFrom(re, s, starts) ==
  IF starts = <<>> THEN <<>>
  ELSE Ends(re, s, Head(starts)) \o EndsFrom(re, s, Tail(starts))

EndsAlt(rs, s, p) ==
  IF rs = <<>> THEN <<>>
  ELSE Ends(Head(rs), s, p) \o EndsAlt(Tail(rs), s, p)

EndsCat(rs, s, starts) ==
  IF rs = <<>> \/ starts = <<>> THEN starts
  ELSE EndsCat(Tail(rs), s, EndsFrom(Head(rs), s, starts))

\* The quantifiers of the patterns modelled here all repeat a one-character
\* pattern: a greedy one tries the longest run first, a lazy one the
\* shortest.
Ends(re, s, p) ==
  CASE re.k = "lit" ->
         LET e == p + Len(re.w)
         IN  IF e <= Len(s) /\ Sub(s, p, e) = re.w THEN <<e>> ELSE <<>>
    [] re.k \in {"cls", "dot"} ->
         IF p < Len(s) /\ CharMatches(re, CharAt(s, p)) THEN <<p + 1>> ELSE <<>>
    [] re.k = "bol" -> IF p = 0 THEN <<p>> ELSE <<>>
    [] re.k = "alt" -> EndsAlt(re.rs, s, p)
    [] re.k = "cat" -> EndsCat(re.rs, s, <<p>>)
    [] re.k = "plus" ->
         LET stop == RunStop(re.r, s, p) IN [j \in 1..(stop - p) |-> stop + 1 - j]
    [] re.k = "star" ->
         LET stop == RunStop(re.r, s, p) IN [j \in 1..(stop - p + 1) |-> stop + 1 - j]
    [] re.k = "lazy" ->
         LET stop == RunStop(re.r, s, p) IN [j \in 1..(stop - p + 1) |-> p + j - 1]

NoMatch == [start |-> -1, end |-> -1]

\* RegExp.prototype.exec from lastIndex: the leftmost start that matches.
Exec(re, s, lastIndex) ==
  LET starts == {a \in lastIndex..Len(s) : Ends(re, s, a) # <<>>}
  IN  IF starts = {} THEN NoMatch
      ELSE LET a == CHOOSE a \in starts : \A x \in starts : a <= x
           IN  [start |-> a, end |-> Ends(re, s, a)[1]]

\* The matches of a global re in s: lastIndex starts at 0 and moves to the
\* end of each match (one further after an empty match).
RECURSIVE MatchLoop(_, _, _)
MatchLoop(re, s, lastIndex) ==
  LET m == Exec(re, s, lastIndex)
  IN  IF m = NoMatch THEN <<>>
      ELSE <<m>> \o MatchLoop(re, s, IF m.end = m.start THEN m.end + 1 ELSE m.end)

\* The spans of s.match(re) for a global re; ci is the i flag.
MatchSpans(re, s, ci) ==
  IF ci THEN MatchLoop(FoldCase(re), ToLowerCase(s), 0) ELSE MatchLoop(re, s, 0)

\* s.match(re) || []
MatchAll(re, s, ci) ==
  LET spans == MatchSpans(re, s, ci)
  IN  [j \in 1..Len(spans) |-> Sub(s, spans[j].start, spans[j].end)]

\* s.split(re): p is the start of the current piece; the separator is the
\* first match at an offset q >= p, q < s.length, that does not end at p.
RECURSIVE SplitLoop(_, _, _)
SplitLoop(re, s, p) ==
  LET seps == {q \in p..(Len(s) - 1) : Ends(re, s, q) # <<>> /\ Ends(re, s, q)[1] # p}
  IN  IF seps = {} THEN <<Sub(s, p, Len(s))>>
      ELSE LET q == CHOOSE q \in seps : \A x \in seps : q <= x
           IN  <<Sub(s, p, q)>> \o SplitLoop(re, s, Ends(re, s, q)[1])

Split(re, s) ==
  IF Len(s) = 0 THEN (IF Ends(re, s, 0) # <<>> THEN <<>> ELSE <<s>>)
  ELSE SplitLoop(re, s, 0)

(***************************************************************************)
(* State.  The Speaker Segmenter's locals (processSpeakerSegments).        *)
(***************************************************************************)
VARIABLES
  text,            \* the transcript passed to processSpeakerSegments
  sentences,       \* the non-blank pieces of the split
  i,               \* the loop index
  currentSpeaker,
  currentText,
  timestamp,
  speakers,        \* the segments pushed so far
  pc               \* "entry", "loop", "done"; "idle" when the segmenter is not run

segVars == <<text, sentences, i, currentSpeaker, currentText, timestamp, speakers, pc>>

(***************************************************************************)
(* State.  The calls of the Entity Extractor (extractPharmacyEntities of   *)
(* lib/utils): each call has its argument, its position and its locals.    *)
(***************************************************************************)
VARIABLES
  argText,         \* call -> the argument text
  callPc,          \* call -> "idle", "entry", "scan", "return", "done"
  lowerText,       \* call -> const lowerText
  medications,     \* call -> const medications
  dosages,         \* call -> const dosages
  sideEffects,     \* call -> const sideEffects
  allergies,       \* call -> const allergies
  interactions,    \* call -> const interactions
  result           \* call -> the value returned

extVars == <<argText, callPc, lowerText, medications, dosages, sideEffects,
             allergies, interactions, result>>

(***************************************************************************)
(* State.  The transcription view's detections panel.                      *)
(***************************************************************************)
VARIABLES
  editedText,      \* the view's editedText, initially data.text
  rendered,        \* whether the panel has been rendered
  detections       \* what the view's own extractPharmacyEntities returned

viewVars == <<editedText, rendered, detections>>

(***************************************************************************)
(* State.  One call of the Fallback Summary Builder                        *)
(* (createFallbackSummary of the summarize routes).                        *)
(***************************************************************************)
VARIABLES
  fbText,          \* the argument text
  fbPc,            \* "idle", "entry", "done"
  fbSummary        \* the value returned

fbVars == <<fbText, fbPc, fbSummary>>

(***************************************************************************)
(* State.  A summarize route handling one request: POST of /api/summarize  *)
(* and POST of /api/summarize/gemini.                                      *)
(***************************************************************************)
VARIABLES
  request,         \* the request body and the route it was sent to
  env,             \* which of OPENAI_API_KEY and GOOGLE_API_KEY are set
  routePc,         \* "idle", "received", "done"
  vendorCalls,     \* the calls made to a summarization vendor
  vendorReply,     \* what the vendor answered to the last call
  response         \* the response of the route

routeVars == <<request, env, routePc, vendorCalls, vendorReply, response>>

(***************************************************************************)
(* State.  The browser side of one activation of Generate Summary          *)
(* (handleGenerateSummary) or of Transcribe Audio (handleTranscribe).      *)
(***************************************************************************)
VARIABLES
  settings,        \* the settings prop: summarizer and provider
  audioFile,       \* uploadedFile || audioBlob
  clientPc,        \* "idle", "ready", "awaitFirst", "awaitSecond",
                   \* "awaitTranscription", "finished"
  requests,        \* the requests the activation has sent, in order
  isLoading,       \* the loading flag of the page
  alerted,         \* the message passed to alert, "" if none
  completed        \* the data passed to onSummaryComplete or
                   \* onTranscriptionComplete

clientVars == <<settings, audioFile, clientPc, requests, isLoading, alerted, completed>>

(***************************************************************************)
(* State.  The summary view (SummaryView) and its plain-text export.       *)
(***************************************************************************)
VARIABLES
  data,              \* the data prop: the summary on display
  transcriptionData, \* the transcriptionData prop, reduced to its duration
  clipboard,         \* what copyToClipboard wrote to the clipboard, "" if nothing
  pdfText,           \* the summaryText exportToPDF laid out, "" if none
  copied             \* the copied flag

summaryViewVars == <<data, transcriptionData, clipboard, pdfText, copied>>

(***************************************************************************)
(* State.  The editor of the transcription view (editedText is declared    *)
(* with the detections panel above).                                       *)
(***************************************************************************)
VARIABLES
  mounted,         \* whether the view has been mounted with its data prop
  isEditing,       \* whether the textarea is shown
  editedSpeakers   \* the speaker segments the view holds

editVars == <<mounted, isEditing, editedSpeakers>>

(***************************************************************************)
(* State.  The main page (Home of page.tsx): the view shown, the data it   *)
(* holds, and the activations of Transcribe Audio and Generate Summary     *)
(* whose requests are in flight.  The page's isLoading and settings are    *)
(* the variables declared with the handlers above.                         *)
(***************************************************************************)
VARIABLES
  currentView,           \* 'recording', 'transcription' or 'summary'
  pageTranscriptionData, \* Home's transcriptionData, a JSON value, null at first
  pageSummaryData,       \* Home's summaryData, a JSON value, null at first
  inFlight,              \* the activations that await a response
  activations,           \* how many activations were started
  transcriptionNo,       \* history: the number of the transcription stored
  summaryOf,             \* history: the transcription the stored summary was made from
  editedOf               \* history: the transcription the mounted view's editedText is from

homeVars == <<currentView, pageTranscriptionData, pageSummaryData, inFlight,
              activations, transcriptionNo, summaryOf, editedOf>>

(***************************************************************************)
(* State.  The settings panel (SettingsPanel) and localStorage.            *)
(***************************************************************************)
VARIABLES
  homePc,          \* "rendered" before the mount effect of Home, then "loaded"
  isSettingsOpen,  \* Home's isSettingsOpen
  panelSettings,   \* the panel's own settings state
  stored,          \* localStorage.getItem('transcriptionSettings'), NoItem if none
  openedWith,      \* history: the settings in use, stored and in the panel when it was opened
  touched,         \* history: a control was used since the panel was opened
  lastClick,       \* history: the last button of the panel that was pressed
  discarded        \* history: changes were dismissed and no Save has followed

panelVars == <<homePc, isSettingsOpen, panelSettings, stored, openedWith, touched,
               lastClick, discarded>>

(***************************************************************************)
(* State.  The audio recorder (AudioRecorder).  An audio is identified by  *)
(* the order in which it was provided: 0 stands for null.                  *)
(***************************************************************************)
VARIABLES
  isRecording,     \* the isRecording state
  audioBlob,       \* the recorded blob
  uploadedFile,    \* the uploaded file
  audioUrl,        \* the audio whose object URL the player is loaded with
  provided,        \* how many audios the user has provided
  stopping,        \* how many stopped recorders have their stop event pending
  sentAudio        \* the audio appended to the form data of the last request

recorderVars == <<isRecording, audioBlob, uploadedFile, audioUrl, provided, stopping,
                  sentAudio>>

shellVars == <<homeVars, panelVars, recorderVars>>

pageVars == <<summaryViewVars, editVars, shellVars>>

\* The state of the rest of the application, which the three text utilities
\* never touch.
appVars == <<fbVars, routeVars, clientVars, pageVars>>

(***************************************************************************)
(* Inputs: every concatenation of at most MaxPieces pieces of one set.     *)
(***************************************************************************)
MaxPieces == 4

MaxEntityPieces == 3

RECURSIVE Concat(_)
Concat(ps) == IF ps = <<>> THEN "" ELSE Head(ps) \o Concat(Tail(ps))

TextsOver(pieces, n) ==
  {Concat(ps) : ps \in UNION {[1..m -> pieces] : m \in 0..n}}

SegmenterPieces ==
  {"What now? ", "The Dosage. ", "why medication", " ", "yes. Sure?! ", "."}

\* The transcript of the specification's worked example.
DosageExample == "What is the dosage? Take two tablets daily."

SegmenterInputs == TextsOver(SegmenterPieces, MaxPieces) \cup {DosageExample}

(***************************************************************************)
(* processSpeakerSegments                                                  *)
(***************************************************************************)

\* A faulty variant of SentenceDelimiter: the question mark does not delimit.
SentenceDelimiterNoQuestion == Plus(Cls({".", "!"}))

\* /[.!?]+/
SentenceDelimiter == Plus(Cls({".", "!", "?"}))

\* A faulty variant of NonBlank: the filter without the trim.
NonBlankNoTrim(s) == Len(s) > 0

\* s => s.trim().length > 0
NonBlank(s) == Len(Trim(s)) > 0

\* text.split(/[.!?]+/).filter(s => s.trim().length > 0)
SplitSentences(t) == SelectSeq(Split(SentenceDelimiter, t), NonBlank)

QuestionWords == <<"what", "how", "when", "why", "can you", "could you">>

MedicalTerms == <<"dosage", "side effect", "medication", "prescription", "pharmacy">>

IsQuestion(sentence) ==
  \/ Includes(sentence, "?")
  \/ \E j \in 1..Len(QuestionWords) : Includes(ToLowerCase(sentence), QuestionWords[j])

HasMedicalTerms(sentence) ==
  \E j \in 1..Len(MedicalTerms) : Includes(ToLowerCase(sentence), MedicalTerms[j])

\* A faulty variant of NextSpeaker: a question wins over a medical term.
NextSpeakerQuestionFirst(speaker, sentence) ==
  IF IsQuestion(sentence) THEN "Patient"
  ELSE IF HasMedicalTerms(sentence) THEN "Pharmacist"
  ELSE speaker

\* The if / else if that updates currentSpeaker.
NextSpeaker(speaker, sentence) ==
  IF IsQuestion(sentence) /\ ~HasMedicalTerms(sentence) THEN "Patient"
  ELSE IF HasMedicalTerms(sentence) THEN "Pharmacist"
  ELSE speaker

\* A faulty variant of EmitsAt: the last sentence does not force an emission.
EmitsAtOddOnly(idx, n) == idx % 2 = 1

\* i % 2 === 1 || i === sentences.length - 1
EmitsAt(idx, n) == idx % 2 = 1 \/ idx = n - 1

SecondsPerSentence == 30

\* timestamp: timestamp - 30, read after timestamp += 30
SegmentTimestamp(ts) == ts - SecondsPerSentence

SegInit ==
  /\ text \in SegmenterInputs
  /\ pc = "entry"
  /\ sentences = <<>>
  /\ i = 0
  /\ currentSpeaker = "Pharmacist"
  /\ currentText = ""
  /\ timestamp = 0
  /\ speakers = <<>>

\* The declarations before the loop.
Enter ==
  /\ pc = "entry"
  /\ sentences' = SplitSentences(text)
  /\ speakers' = <<>>
  /\ currentSpeaker' = "Pharmacist"
  /\ currentText' = ""
  /\ timestamp' = 0
  /\ i' = 0
  /\ pc' = "loop"
  /\ UNCHANGED text
  /\ UNCHANGED <<extVars, viewVars, appVars>>

\* One iteration of the for loop.
LoopBody ==
  /\ pc = "loop"
  /\ i < Len(sentences)
  /\ LET sentence == Trim(sentences[i + 1])
         speaker  == NextSpeaker(currentSpeaker, sentence)
         acc      == currentText \o sentence \o ". "
         ts       == timestamp + SecondsPerSentence
     IN  /\ currentSpeaker' = speaker
         /\ timestamp' = ts
         /\ IF EmitsAt(i, Len(sentences))
            THEN /\ speakers' = Append(speakers,
                                  [speaker |-> speaker,
                                   text |-> Trim(acc),
                                   timestamp |-> SegmentTimestamp(ts)])
                 /\ currentText' = ""
            ELSE /\ speakers' = speakers
                 /\ currentText' = acc
  /\ i' = i + 1
  /\ UNCHANGED <<text, sentences, pc>>
  /\ UNCHANGED <<extVars, viewVars, appVars>>

\* return speakers
Return ==
  /\ pc = "loop"
  /\ i >= Len(sentences)
  /\ pc' = "done"
  /\ UNCHANGED <<text, sentences, i, currentSpeaker, currentText, timestamp, speakers>>
  /\ UNCHANGED <<extVars, viewVars, appVars>>

SegIdle ==
  /\ text = ""
  /\ pc = "idle"
  /\ sentences = <<>>
  /\ i = 0
  /\ currentSpeaker = "Pharmacist"
  /\ currentText = ""
  /\ timestamp = 0
  /\ speakers = <<>>

(***************************************************************************)
(* extractPharmacyEntities (lib/utils)                                     *)
(***************************************************************************)
Calls == {1, 2, 3}

MedicationNames ==
  <<"aspirin", "ibuprofen", "acetaminophen", "amoxicillin", "metformin",
    "lisinopril", "atorvastatin", "omeprazole", "albuterol", "prednisone",
    "warfarin", "insulin", "morphine", "oxycodone", "hydrocodone">>

SideEffectNames ==
  <<"nausea", "dizziness", "headache", "fatigue", "diarrhea", "constipation",
    "rash", "itching", "swelling", "shortness of breath", "chest pain",
    "irregular heartbeat", "fever", "chills", "sore throat">>

\* Alternation of literal words, in source order.
Words(ws) == Alt([j \in 1..Len(ws) |-> Lit(ws[j])])

DosageUnits == <<"mg", "mcg", "g", "ml", "tablet", "capsule", "dose", "puff">>

\* A faulty variant of DosageRe: the unit list without puff.
DosageReNoPuff ==
  Cat(<<Plus(Cls(Digits)), Star(Cls(WhiteSpace)),
        Words(<<"mg", "mcg", "g", "ml", "tablet", "capsule", "dose">>)>>)

\* /\d+\s*(mg|mcg|g|ml|tablet|capsule|dose|puff)/gi
DosageRe == Cat(<<Plus(Cls(Digits)), Star(Cls(WhiteSpace)), Words(DosageUnits)>>)

AllergyTriggers == <<"allergic", "allergy", "reaction">>

Allergens == <<"penicillin", "sulfa", "aspirin", "latex", "peanut", "shellfish">>

\* A faulty variant of AllergyRe: a greedy middle span.
AllergyReGreedy == Cat(<<Words(AllergyTriggers), Star(Dot), Words(Allergens)>>)

\* /(allergic|allergy|reaction).*?(penicillin|sulfa|aspirin|latex|peanut|shellfish)/gi
AllergyRe == Cat(<<Words(AllergyTriggers), LazyStar(Dot), Words(Allergens)>>)

InteractionTriggers == <<"interaction", "interact", "conflict">>

InteractionObjects == <<"medication", "drug", "medicine">>

\* /(interaction|interact|conflict).*?(medication|drug|medicine)/gi
InteractionRe == Cat(<<Words(InteractionTriggers), LazyStar(Dot), Words(InteractionObjects)>>)

\* A faulty variant of LowerTextOf: the vocabulary is matched against the text as given.
LowerTextAsGiven(t) == t

\* text.toLowerCase()
LowerTextOf(t) == ToLowerCase(t)

\* A faulty variant of LowerTextCell: lowerText declared at module scope, one cell
\* shared by every call.
LowerTextShared(c) == 1

\* const lowerText is a local: each call has its own.
LowerTextCell(c) == c

\* [...].filter(entry => lowerText.includes(entry))
VocabularyHits(vocabulary, lower) ==
  SelectSeq(vocabulary, LAMBDA entry : Includes(lower, entry))

\* A faulty variant of NonEmptyCategory: nothing is filtered out.
AnyCategory(category) == TRUE

\* category => category.items.length > 0
NonEmptyCategory(category) == Len(category.items) > 0

\* The array literal of the return statement, filtered.
Categories(meds, doses, effects, allergs, inters) ==
  SelectSeq(<<[name |-> "Medications", items |-> meds],
              [name |-> "Dosages", items |-> doses],
              [name |-> "Side Effects", items |-> effects],
              [name |-> "Allergies", items |-> allergs],
              [name |-> "Drug Interactions", items |-> inters]>>,
            NonEmptyCategory)

\* const lowerText = text.toLowerCase()
LowerCase(c) ==
  /\ callPc[c] = "entry"
  /\ lowerText' = [lowerText EXCEPT ![LowerTextCell(c)] = LowerTextOf(argText[c])]
  /\ callPc' = [callPc EXCEPT ![c] = "scan"]
  /\ UNCHANGED <<argText, medications, dosages, sideEffects, allergies,
                 interactions, result>>
  /\ UNCHANGED <<segVars, viewVars, appVars>>

\* The five const declarations: two vocabulary filters, three matches.
Scan(c) ==
  /\ callPc[c] = "scan"
  /\ medications' = [medications EXCEPT
                       ![c] = VocabularyHits(MedicationNames, lowerText[LowerTextCell(c)])]
  /\ dosages' = [dosages EXCEPT ![c] = MatchAll(DosageRe, argText[c], TRUE)]
  /\ sideEffects' = [sideEffects EXCEPT
                       ![c] = VocabularyHits(SideEffectNames, lowerText[LowerTextCell(c)])]
  /\ allergies' = [allergies EXCEPT ![c] = MatchAll(AllergyRe, argText[c], TRUE)]
  /\ interactions' = [interactions EXCEPT ![c] = MatchAll(InteractionRe, argText[c], TRUE)]
  /\ callPc' = [callPc EXCEPT ![c] = "return"]
  /\ UNCHANGED <<argText, lowerText, result>>
  /\ UNCHANGED <<segVars, viewVars, appVars>>

\* return [...].filter(category => category.items.length > 0)
ReturnEntities(c) ==
  /\ callPc[c] = "return"
  /\ result' = [result EXCEPT
                  ![c] = Categories(medications[c], dosages[c], sideEffects[c],
                                    allergies[c], interactions[c])]
  /\ callPc' = [callPc EXCEPT ![c] = "done"]
  /\ UNCHANGED <<argText, lowerText, medications, dosages, sideEffects,
                 allergies, interactions>>
  /\ UNCHANGED <<segVars, viewVars, appVars>>

(***************************************************************************)
(* extractPharmacyEntities (the transcription view's own copy)             *)
(***************************************************************************)
ViewMedicationNames ==
  <<"aspirin", "ibuprofen", "acetaminophen", "amoxicillin", "metformin",
    "lisinopril", "atorvastatin", "omeprazole", "albuterol", "prednisone">>

ViewSideEffectNames ==
  <<"nausea", "dizziness", "headache", "fatigue", "diarrhea", "constipation",
    "rash", "itching", "swelling", "shortness of breath">>

\* /\d+\s*(mg|mcg|g|ml|tablet|capsule|dose)/gi
ViewDosageRe ==
  Cat(<<Plus(Cls(Digits)), Star(Cls(WhiteSpace)),
        Words(<<"mg", "mcg", "g", "ml", "tablet", "capsule", "dose">>)>>)

\* /(allergic|allergy|reaction).*?(penicillin|sulfa|aspirin|latex)/gi
ViewAllergyRe ==
  Cat(<<Words(<<"allergic", "allergy", "reaction">>), LazyStar(Dot),
        Words(<<"penicillin", "sulfa", "aspirin", "latex">>)>>)

ViewExtractPharmacyEntities(t) ==
  LET lower == ToLowerCase(t)
  IN  SelectSeq(<<[name |-> "Medications",
                   items |-> VocabularyHits(ViewMedicationNames, lower)],
                  [name |-> "Dosages", items |-> MatchAll(ViewDosageRe, t, TRUE)],
                  [name |-> "Side Effects",
                   items |-> VocabularyHits(ViewSideEffectNames, lower)],
                  [name |-> "Allergies", items |-> MatchAll(ViewAllergyRe, t, TRUE)]>>,
                LAMBDA category : Len(category.items) > 0)

\* {extractPharmacyEntities(editedText).map(...)} in the view's render
RenderDetections ==
  /\ ~rendered
  /\ detections' = ViewExtractPharmacyEntities(editedText)
  /\ rendered' = TRUE
  /\ UNCHANGED editedText
  /\ UNCHANGED <<segVars, extVars, appVars>>

ViewIdle ==
  /\ editedText = ""
  /\ rendered = FALSE
  /\ detections = <<>>

(***************************************************************************)
(* Inputs of the extractor: concatenations of pieces of one suite.         *)
(***************************************************************************)
CategoryPieces ==
  {"Warfarin ", "5 mg ", "nausea ", "allergy latex ",
   "interact drug ", "ok "}

VocabularyPieces ==
  {"Aspirin ", "hydrocodone", "Sore Throat ", "nausea", "as", "pirin "}

DosagePieces == {"12", " ", "mg", "MCG ", "3 Tablets", "puff", "\n"}

AllergyPieces == {"Allergic to ", "reaction", " latex ", "Aspirin", "\n", "peanut "}

InteractionPieces ==
  {"Interaction ", "interact", "conflict with ", "drug ", " medicine", "\n"}

\* The transcript of the specification's worked example.
EntityExample == "Patient takes aspirin 500 mg daily, allergic to penicillin."

ExtractorInputs ==
  UNION {TextsOver(pieces, MaxEntityPieces) :
           pieces \in {CategoryPieces, VocabularyPieces, DosagePieces,
                       AllergyPieces, InteractionPieces}}
    \cup {EntityExample}

MaxViewPieces == 2

ViewPieces ==
  {"Warfarin ", "aspirin ", "12puff ", "5 mg ", "allergy peanut ",
   "Allergic to latex ", "interact drug ", "chills ", "nausea "}

\* The transcripts shown in the transcription view.
ViewInputs == TextsOver(ViewPieces, MaxViewPieces)

\* The arguments of the concurrent calls.
CallInputs == {"", "Aspirin 5mg", "aspirin 5mg", "nausea, allergic to latex"}

NoLocals == [c \in Calls |-> <<>>]

ExtLocalsInit ==
  /\ lowerText = [c \in Calls |-> ""]
  /\ medications = NoLocals
  /\ dosages = NoLocals
  /\ sideEffects = NoLocals
  /\ allergies = NoLocals
  /\ interactions = NoLocals
  /\ result = NoLocals

ExtIdle ==
  /\ argText = [c \in Calls |-> ""]
  /\ callPc = [c \in Calls |-> "idle"]
  /\ ExtLocalsInit

vars == <<segVars, extVars, viewVars, appVars>>

(***************************************************************************)
(* createFallbackSummary (the same function in both summarize routes)      *)
(***************************************************************************)
UpperMap == [c \in {CharAt(LowerLetters, j) : j \in 0..25} |->
               CharAt(UpperLetters, CHOOSE j \in 0..25 : CharAt(LowerLetters, j) = c)]

\* c.toUpperCase() of one character
UpperChar(c) == IF c \in DOMAIN UpperMap THEN UpperMap[c] ELSE c

\* med.charAt(0).toUpperCase() + med.slice(1)
Capitalize(med) == UpperChar(CharAt(med, 0)) \o Sub(med, 1, Len(med))

FallbackMedicationNames ==
  <<"aspirin", "ibuprofen", "acetaminophen", "amoxicillin", "metformin",
    "lisinopril", "atorvastatin", "omeprazole", "albuterol", "prednisone">>

\* med => ({ name: ..., dosage: '', frequency: '', notes: '' })
MedicationEntry(name) ==
  [name |-> name, dosage |-> "", frequency |-> "", notes |-> ""]

Rule(trigger, label) == [trigger |-> trigger, label |-> label]

\* if (lowerText.includes(trigger)) topics.push(label), in source order
TopicRules ==
  <<Rule("medication", "Medication discussion"),
    Rule("side effect", "Side effects"),
    Rule("allergy", "Allergies"),
    Rule("dosage", "Dosage instructions"),
    Rule("refill", "Refill request")>>

ActionRules ==
  <<Rule("follow up", "Schedule follow-up appointment"),
    Rule("refill", "Process medication refill"),
    Rule("call", "Call patient with updates")>>

ConcernRules ==
  <<Rule("pain", "Pain management"),
    Rule("side effect", "Medication side effects"),
    Rule("allergy", "Allergic reactions")>>

RecommendationRules ==
  <<Rule("take with food", "Take medication with food"),
    Rule("avoid alcohol", "Avoid alcohol while taking medication"),
    Rule("monitor", "Monitor for side effects")>>

\* The labels pushed by a run of if statements over lower.
RuleLabels(rules, lower) ==
  LET hits == SelectSeq(rules, LAMBDA r : Includes(lower, r.trigger))
  IN  [j \in 1..Len(hits) |-> hits[j].label]

\* A faulty variant of OrElse: the list is returned even when it is empty.
OrElseNothing(list, placeholder) == list

\* list.length > 0 ? list : [placeholder]
OrElse(list, placeholder) == IF Len(list) > 0 THEN list ELSE <<placeholder>>

\* A faulty variant of FallbackLowerText: the triggers are tested against the
\* text as given.
FallbackTextAsGiven(t) == t

\* const lowerText = text.toLowerCase()
FallbackLowerText(t) == ToLowerCase(t)

NoMedicationsName == "No specific medications mentioned"

createFallbackSummary(t) ==
  LET lower == FallbackLowerText(t)
      hits  == VocabularyHits(FallbackMedicationNames, lower)
      meds  == [j \in 1..Len(hits) |-> MedicationEntry(Capitalize(hits[j]))]
  IN  [keyTopics |-> OrElse(RuleLabels(TopicRules, lower), "General consultation"),
       medications |-> OrElse(meds, MedicationEntry(NoMedicationsName)),
       actionItems |-> OrElse(RuleLabels(ActionRules, lower), "Review consultation notes"),
       patientConcerns |->
         OrElse(RuleLabels(ConcernRules, lower), "General health discussion"),
       pharmacistRecommendations |->
         OrElse(RuleLabels(RecommendationRules, lower), "Follow prescribed regimen")]

\* One call of createFallbackSummary.
CallFallback ==
  /\ fbPc = "entry"
  /\ fbSummary' = createFallbackSummary(fbText)
  /\ fbPc' = "done"
  /\ UNCHANGED fbText
  /\ UNCHANGED <<segVars, extVars, viewVars, pageVars, routeVars, clientVars>>

NoSummary == [keyTopics |-> <<>>, medications |-> <<>>, actionItems |-> <<>>,
              patientConcerns |-> <<>>, pharmacistRecommendations |-> <<>>]

FbIdle ==
  /\ fbText = ""
  /\ fbPc = "idle"
  /\ fbSummary = NoSummary

MaxFallbackPieces == 3

FallbackTopicPieces ==
  {"Medication ", "side effect ", "allergy ", "Dosage ", "refill ", "ok "}

FallbackCarePieces ==
  {"follow up ", "call ", "pain ", "Take with food ", "avoid alcohol ", "monitor "}

FallbackMedicationPieces ==
  {"Aspirin ", "warfarin ", "prednisone ", "ibuprofen ", "as", "pirin "}

FallbackInputs ==
  UNION {TextsOver(pieces, MaxFallbackPieces) :
           pieces \in {FallbackTopicPieces, FallbackCarePieces, FallbackMedicationPieces}}


(***************************************************************************)
(* JSON values and JSON.parse.  A value is a record of one shape: t is its *)
(* type, s the text of a string, number or literal, items the elements of  *)
(* an array or the member values of an object, keys the member names.      *)
(* The parser covers the grammar without escape sequences, fractions and   *)
(* exponents, which the replies modelled here do not use.                  *)
(***************************************************************************)
JStr(x) == [t |-> "str", s |-> x, keys |-> <<>>, items |-> <<>>]

JNum(x) == [t |-> "num", s |-> x, keys |-> <<>>, items |-> <<>>]

JLit(x) == [t |-> "lit", s |-> x, keys |-> <<>>, items |-> <<>>]

JArr(items) == [t |-> "arr", s |-> "", keys |-> <<>>, items |-> items]

JObj(keys, items) == [t |-> "obj", s |-> "", keys |-> keys, items |-> items]

\* The result of a parse that throws a SyntaxError.
Failed == [ok |-> FALSE, v |-> JLit("null"), e |-> 0]

Parsed(v, e) == [ok |-> TRUE, v |-> v, e |-> e]

SkipWs(s, p) == RunStop(Cls(WhiteSpace), s, p)

StartsAt(s, p, w) == p + Len(w) <= Len(s) /\ Sub(s, p, p + Len(w)) = w

\* A string whose opening quote is at offset p.
ParseString(s, p) ==
  LET closes == {q \in (p + 1)..(Len(s) - 1) : CharAt(s, q) = "\""}
  IN  IF closes = {} THEN Failed
      ELSE LET q == CHOOSE q \in closes : \A x \in closes : q <= x
           IN  IF \E x \in (p + 1)..(q - 1) : CharAt(s, x) \in {"\\", "\n", "\t", "\r"}
               THEN Failed
               ELSE Parsed(JStr(Sub(s, p + 1, q)), q + 1)

\* An integer that starts at offset p.
ParseNumber(s, p) ==
  LET d == IF StartsAt(s, p, "-") THEN p + 1 ELSE p
      e == RunStop(Cls(Digits), s, d)
  IN  IF e = d \/ (e > d + 1 /\ CharAt(s, d) = "0") THEN Failed
      ELSE Parsed(JNum(Sub(s, p, e)), e)

RECURSIVE ParseValue(_, _)
RECURSIVE ParseElements(_, _, _)
RECURSIVE ParseMembers(_, _, _, _)

\* The elements of an array from offset p on, after those of acc.
ParseElements(s, p, acc) ==
  LET r == ParseValue(s, p)
      b == SkipWs(s, r.e)
  IN  IF ~r.ok \/ b >= Len(s) THEN Failed
      ELSE IF CharAt(s, b) = "," THEN ParseElements(s, b + 1, Append(acc, r.v))
      ELSE IF CharAt(s, b) = "]" THEN Parsed(JArr(Append(acc, r.v)), b + 1)
      ELSE Failed

\* The members of an object from offset p on.
ParseMembers(s, p, keys, vals) ==
  LET a == SkipWs(s, p)
      k == IF StartsAt(s, a, "\"") THEN ParseString(s, a) ELSE Failed
      c == SkipWs(s, k.e)
      r == IF k.ok /\ StartsAt(s, c, ":") THEN ParseValue(s, c + 1) ELSE Failed
      b == SkipWs(s, r.e)
  IN  IF ~r.ok \/ b >= Len(s) THEN Failed
      ELSE IF CharAt(s, b) = ","
        THEN ParseMembers(s, b + 1, Append(keys, k.v.s), Append(vals, r.v))
      ELSE IF CharAt(s, b) = "}"
        THEN Parsed(JObj(Append(keys, k.v.s), Append(vals, r.v)), b + 1)
      ELSE Failed

ParseValue(s, p) ==
  LET a == SkipWs(s, p)
      c == CharAt(s, a)
  IN  IF a >= Len(s) THEN Failed
      ELSE IF c = "\"" THEN ParseString(s, a)
      ELSE IF c = "{" THEN
        (IF StartsAt(s, SkipWs(s, a + 1), "}")
         THEN Parsed(JObj(<<>>, <<>>), SkipWs(s, a + 1) + 1)
         ELSE ParseMembers(s, a + 1, <<>>, <<>>))
      ELSE IF c = "[" THEN
        (IF StartsAt(s, SkipWs(s, a + 1), "]")
         THEN Parsed(JArr(<<>>), SkipWs(s, a + 1) + 1)
         ELSE ParseElements(s, a + 1, <<>>))
      ELSE IF \E w \in {"true", "false", "null"} : StartsAt(s, a, w)
        THEN LET w == CHOOSE w \in {"true", "false", "null"} : StartsAt(s, a, w)
             IN  Parsed(JLit(w), a + Len(w))
      ELSE IF c \in Digits \cup {"-"} THEN ParseNumber(s, a)
      ELSE Failed

\* JSON.parse(s): ok is FALSE when it throws.
JSONparse(s) ==
  LET r == ParseValue(s, 0)
  IN  IF r.ok /\ SkipWs(s, r.e) = Len(s) THEN r ELSE Failed

\* The value of member key of an object, the last one of that name.
Member(v, key) ==
  LET at == {j \in 1..Len(v.keys) : v.keys[j] = key}
  IN  v.items[CHOOSE j \in at : \A x \in at : x <= j]

HasMember(v, key) == v.t = "obj" /\ \E j \in 1..Len(v.keys) : v.keys[j] = key

(***************************************************************************)
(* The summarize routes                                                    *)
(***************************************************************************)
\* String(n) of a natural number
RECURSIVE NatToString(_)
NatToString(n) ==
  IF n < 10 THEN CharAt("0123456789", n)
  ELSE NatToString(n \div 10) \o CharAt("0123456789", n % 10)

\* The JSON of a summary record, as NextResponse.json writes it.
SummaryToJson(summary) ==
  LET Strings(list) == JArr([j \in 1..Len(list) |-> JStr(list[j])])
      Medication(m) == JObj(<<"name", "dosage", "frequency", "notes">>,
                            <<JStr(m.name), JStr(m.dosage), JStr(m.frequency), JStr(m.notes)>>)
  IN  JObj(<<"keyTopics", "medications", "actionItems", "patientConcerns",
             "pharmacistRecommendations">>,
           <<Strings(summary.keyTopics),
             JArr([j \in 1..Len(summary.medications) |-> Medication(summary.medications[j])]),
             Strings(summary.actionItems),
             Strings(summary.patientConcerns),
             Strings(summary.pharmacistRecommendations)>>)

\* { ...summaryData, provider: 'gemini' }: the own enumerable properties of
\* the parsed value (members, array indices, string indices, none of a
\* number or a literal), then provider.
WithProvider(v) ==
  LET indices(n) == [j \in 1..n |-> NatToString(j - 1)]
      own == CASE v.t = "obj" -> [keys |-> v.keys, items |-> v.items]
               [] v.t = "arr" -> [keys |-> indices(Len(v.items)), items |-> v.items]
               [] v.t = "str" -> [keys |-> indices(Len(v.s)),
                                  items |-> [j \in 1..Len(v.s) |-> JStr(CharAt(v.s, j - 1))]]
               [] OTHER -> [keys |-> <<>>, items |-> <<>>]
  IN  IF \E j \in 1..Len(own.keys) : own.keys[j] = "provider"
      THEN JObj(own.keys, [j \in 1..Len(own.keys) |->
                             IF own.keys[j] = "provider" THEN JStr("gemini") ELSE own.items[j]])
      ELSE JObj(Append(own.keys, "provider"), Append(own.items, JStr("gemini")))

\* NextResponse.json({ error }, { status })
ErrorResponse(message, status) ==
  [status |-> status, body |-> JObj(<<"error">>, <<JStr(message)>>)]

NoResponse == [status |-> 0, body |-> JLit("null")]

\* What a vendor call can do: answer with a text, throw, answer with an
\* HTTP error status, or answer without candidates.
Replied(replyText) == [kind |-> "text", text |-> replyText, status |-> 200, message |-> ""]

Threw(message) == [kind |-> "throw", text |-> "", status |-> 0, message |-> message]

Refused(status, message) ==
  [kind |-> "status", text |-> "", status |-> status, message |-> message]

NoCandidates == [kind |-> "empty", text |-> "", status |-> 200, message |-> ""]

NotCalled == [kind |-> "none", text |-> "", status |-> 0, message |-> ""]

\* A faulty variant of NoText: only a missing text is rejected.
NoTextOnlyMissing(req) == ~req.hasText

\* !text
NoText(req) == ~req.hasText \/ req.text = ""

\* The catch block of /api/summarize.
CatchSummarize(message) ==
  IF Includes(message, "quota") \/ Includes(message, "429")
     \/ Includes(message, "insufficient_quota")
  THEN ErrorResponse("OpenAI API quota exceeded. Please check your billing at https://platform.openai.com/account/billing or try using Google Gemini instead.", 429)
  ELSE IF Includes(message, "API key")
  THEN ErrorResponse("Invalid API key. Please check your configuration.", 401)
  ELSE IF Includes(message, "SERVICE_DISABLED") \/ Includes(message, "Generative Language API")
  THEN ErrorResponse("Google Gemini API not enabled. Please follow these steps:\n1. Go to https://console.developers.google.com/apis/api/generativelanguage.googleapis.com/overview\n2. Click \"Enable\" for the Generative Language API\n3. Wait a few minutes for the change to take effect\n4. Try again. If you continue to have issues, try using OpenAI instead.", 403)
  ELSE ErrorResponse("Summary generation failed. Please try again.", 500)

\* try { summaryData = JSON.parse(responseText) }
\* catch { summaryData = createFallbackSummary(text) }
SummaryData(responseText, transcript) ==
  LET r == JSONparse(responseText)
  IN  IF r.ok THEN r.v ELSE SummaryToJson(createFallbackSummary(transcript))

\* const { text, summarizer = 'openai' } = await request.json()
SummarizerOf(req) == IF req.summarizer = "absent" THEN "openai" ELSE req.summarizer

\* Whether /api/summarize reaches a vendor call.
SummarizeCallsVendor(req) ==
  /\ ~NoText(req)
  /\ \/ SummarizerOf(req) = "openai" /\ env.openai
     \/ SummarizerOf(req) = "gemini" /\ env.google

\* The response of /api/summarize, outcome being what the vendor call did.
SummarizeResponse(req, outcome) ==
  IF NoText(req) THEN ErrorResponse("No text provided", 400)
  ELSE IF SummarizerOf(req) = "openai" /\ ~env.openai
  THEN ErrorResponse("OpenAI API key not configured", 500)
  ELSE IF SummarizerOf(req) = "gemini" /\ ~env.google
  THEN ErrorResponse("Google API key not configured", 500)
  ELSE IF SummarizeCallsVendor(req) /\ outcome.kind = "throw"
  THEN CatchSummarize(outcome.message)
  ELSE LET responseText == IF SummarizeCallsVendor(req) THEN outcome.text ELSE ""
       IN  IF responseText = "" THEN CatchSummarize("No response from AI service")
           ELSE [status |-> 200, body |-> SummaryData(responseText, req.text)]

\* The catch block of /api/summarize/gemini.
CatchGemini(message) ==
  IF Includes(message, "API key")
  THEN ErrorResponse("Invalid Google API key. Please check your configuration.", 401)
  ELSE IF Includes(message, "quota")
  THEN ErrorResponse("Google API quota exceeded. Please check your billing.", 429)
  ELSE ErrorResponse("Gemini summary generation failed. Please try again.", 500)

\* Whether /api/summarize/gemini reaches the fetch of the vendor.
GeminiCallsVendor(req) == ~NoText(req) /\ env.google

\* The response of /api/summarize/gemini.
GeminiResponse(req, outcome) ==
  IF NoText(req) THEN ErrorResponse("No text provided", 400)
  ELSE IF ~env.google THEN ErrorResponse("Google API key not configured", 500)
  ELSE CASE outcome.kind = "throw" -> CatchGemini(outcome.message)
         [] outcome.kind = "status" ->
              IF outcome.status = 403
              THEN ErrorResponse("Google API key is invalid or quota exceeded. Please check your Google Cloud Console.", 403)
              ELSE ErrorResponse("Gemini API failed. Please try again.", 500)
         [] outcome.kind = "empty" -> ErrorResponse("No response from Gemini API.", 500)
         [] outcome.kind = "text" ->
              [status |-> 200, body |-> WithProvider(SummaryData(outcome.text, req.text))]

\* A summary in the schema of the prompt.
FullSummaryText ==
  "{\"keyTopics\":[\"Refill\"],\"medications\":[{\"name\":\"Aspirin\",\"dosage\":\"5 mg\"}],\"actionItems\":[\"Call\"],\"patientConcerns\":[\"Pain\"],\"pharmacistRecommendations\":[\"Rest\"]}"

\* The texts a vendor answers with.
VendorTexts ==
  {"", "Sorry, I cannot help.", "Summary: " \o FullSummaryText, FullSummaryText,
   "{}", "[]", "null", "\"Refill\"", "{\"keyTopics\":[]}"}

\* The messages of the errors a vendor SDK or fetch throws.
VendorErrorMessages ==
  {"429 You exceeded your current quota", "Incorrect API key provided",
   "SERVICE_DISABLED", "Generative Language API has not been used in project",
   "fetch failed"}

\* What the SDK calls of /api/summarize can do.
SdkOutcomes ==
  {Replied(t) : t \in VendorTexts} \cup {Threw(m) : m \in VendorErrorMessages}

\* What the fetch of /api/summarize/gemini can do.
FetchOutcomes ==
  SdkOutcomes \cup {Refused(st, "") : st \in {400, 403, 429, 500}} \cup {NoCandidates}

\* POST of /api/summarize
PostSummarize ==
  /\ routePc = "received"
  /\ request.route = "/api/summarize"
  /\ \E outcome \in SdkOutcomes :
       /\ vendorCalls' = IF SummarizeCallsVendor(request) THEN vendorCalls + 1 ELSE vendorCalls
       /\ vendorReply' = IF SummarizeCallsVendor(request) THEN outcome ELSE NotCalled
       /\ response' = SummarizeResponse(request, outcome)
  /\ routePc' = "done"
  /\ UNCHANGED <<request, env>>
  /\ UNCHANGED <<segVars, extVars, viewVars, pageVars, fbVars, clientVars>>

\* POST of /api/summarize/gemini
PostGemini ==
  /\ routePc = "received"
  /\ request.route = "/api/summarize/gemini"
  /\ \E outcome \in FetchOutcomes :
       /\ vendorCalls' = IF GeminiCallsVendor(request) THEN vendorCalls + 1 ELSE vendorCalls
       /\ vendorReply' = IF GeminiCallsVendor(request) THEN outcome ELSE NotCalled
       /\ response' = GeminiResponse(request, outcome)
  /\ routePc' = "done"
  /\ UNCHANGED <<request, env>>
  /\ UNCHANGED <<segVars, extVars, viewVars, pageVars, fbVars, clientVars>>

RequestTexts == {"", "refill ", "Aspirin side effect "}

NoAudio == [present |-> FALSE, type |-> "", size |-> 0]

\* The request bodies a summarize route can be sent.
Requests ==
  [route : {"/api/summarize", "/api/summarize/gemini"},
   hasText : {TRUE},
   text : RequestTexts,
   summarizer : {"absent", "openai", "gemini", "local"},
   audio : {NoAudio}]
    \cup [route : {"/api/summarize", "/api/summarize/gemini"},
          hasText : {FALSE},
          text : {""},
          summarizer : {"absent", "openai", "gemini", "local"},
          audio : {NoAudio}]

Envs == [openai : BOOLEAN, google : BOOLEAN]

NoRequest ==
  [route |-> "", hasText |-> FALSE, text |-> "", summarizer |-> "absent", audio |-> NoAudio]

RouteIdle ==
  /\ request = NoRequest
  /\ env = [openai |-> FALSE, google |-> FALSE]
  /\ routePc = "idle"
  /\ vendorCalls = 0
  /\ vendorReply = NotCalled
  /\ response = NoResponse

(***************************************************************************)
(* The transcribe routes: POST of /api/transcribe (OpenAI Whisper) and     *)
(* POST of /api/transcribe/google.                                         *)
(***************************************************************************)

\* A transcription: its text and the duration the vendor reports (for
\* Google, the end time of the last word of the single result).
Heard(transcript, duration) ==
  [kind |-> "text", text |-> transcript, status |-> 200, message |-> "",
   duration |-> duration]

\* audioFile is present and audioFile.type.startsWith('audio/')
IsAudio(audio) == audio.present /\ StartsAt(audio.type, 0, "audio/")

\* NextResponse.json({ text, speakers, duration })
SegmentsToJson(segments) ==
  JArr([j \in 1..Len(segments) |->
          JObj(<<"speaker", "text", "timestamp">>,
               <<JStr(segments[j].speaker), JStr(segments[j].text),
                 JNum(NatToString(segments[j].timestamp))>>)])

\* The responses of /api/transcribe that are sent without transcription.
TranscribeFailure(req, outcome) ==
  IF ~env.openai THEN ErrorResponse("OpenAI API key not configured", 500)
  ELSE IF ~req.audio.present THEN ErrorResponse("No audio file provided", 400)
  ELSE IF ~IsAudio(req.audio)
  THEN ErrorResponse("Invalid file type. Please upload an audio file.", 400)
  ELSE IF Includes(outcome.message, "API key")
  THEN ErrorResponse("Invalid OpenAI API key. Please check your configuration.", 401)
  ELSE IF Includes(outcome.message, "file")
  THEN ErrorResponse("Invalid audio file format. Please try a different file.", 400)
  ELSE IF Includes(outcome.message, "quota") \/ Includes(outcome.message, "429")
  THEN ErrorResponse("OpenAI API quota exceeded. Please check your billing and usage limits at https://platform.openai.com/account/usage", 429)
  ELSE IF Includes(outcome.message, "insufficient_quota")
  THEN ErrorResponse("OpenAI API quota exceeded. Please add payment method or upgrade your plan at https://platform.openai.com/account/billing", 429)
  ELSE ErrorResponse("Transcription failed. Please try again.", 500)

\* POST of /api/transcribe up to the call of processSpeakerSegments, which
\* then runs on the transcription's text.
PostTranscribe ==
  /\ routePc = "received"
  /\ request.route = "/api/transcribe"
  /\ \E outcome \in {Heard("", 0), Heard("What now? The Dosage. yes", 42),
                     Heard("Sure?!", 7), Threw("Incorrect API key provided"),
                     Threw("Invalid file format."), Threw("429 quota"),
                     Threw("Connection error.")} :
       LET called == env.openai /\ IsAudio(request.audio)
       IN  /\ vendorCalls' = IF called THEN vendorCalls + 1 ELSE vendorCalls
           /\ vendorReply' = IF called THEN outcome ELSE NotCalled
           /\ IF called /\ outcome.kind = "text"
              THEN /\ text' = outcome.text
                   /\ pc' = "entry"
                   /\ routePc' = "segmenting"
                   /\ response' = response
              ELSE /\ response' = TranscribeFailure(request, outcome)
                   /\ routePc' = "done"
                   /\ UNCHANGED <<text, pc>>
  /\ UNCHANGED <<sentences, i, currentSpeaker, currentText, timestamp, speakers>>
  /\ UNCHANGED <<request, env>>
  /\ UNCHANGED <<extVars, viewVars, pageVars, fbVars, clientVars>>

\* return NextResponse.json({ text, speakers, duration }) of /api/transcribe
RespondTranscribe ==
  /\ routePc = "segmenting"
  /\ pc = "done"
  /\ response' =
       [status |-> 200,
        body |-> JObj(<<"text", "speakers", "duration">>,
                      <<JStr(text), SegmentsToJson(speakers),
                        JNum(NatToString(vendorReply.duration))>>)]
  /\ routePc' = "done"
  /\ UNCHANGED <<request, env, vendorCalls, vendorReply>>
  /\ UNCHANGED <<segVars, extVars, viewVars, pageVars, fbVars, clientVars>>

\* The response of /api/transcribe/google.
GoogleTranscribeResponse(req, outcome) ==
  IF ~req.audio.present THEN ErrorResponse("No audio file provided", 400)
  ELSE IF ~IsAudio(req.audio)
  THEN ErrorResponse("Invalid file type. Please upload an audio file.", 400)
  ELSE IF ~env.google THEN ErrorResponse("Google API key not configured", 500)
  ELSE CASE outcome.kind = "throw" ->
              IF Includes(outcome.message, "API key")
              THEN ErrorResponse("Invalid Google API key. Please check your configuration.", 401)
              ELSE IF Includes(outcome.message, "quota")
              THEN ErrorResponse("Google API quota exceeded. Please check your billing.", 429)
              ELSE ErrorResponse("Google transcription failed. Please try again.", 500)
         [] outcome.kind = "status" /\ outcome.status = 403 ->
              ErrorResponse("Google API key is invalid or quota exceeded. Please check your Google Cloud Console.", 403)
         [] outcome.kind = "status" /\ outcome.status = 400 ->
              IF Includes(outcome.message, "sample_rate") \/ Includes(outcome.message, "encoding")
              THEN ErrorResponse("Audio format issue. Please try recording again or upload a different audio file.", 400)
              ELSE IF Includes(outcome.message, "Sync input too long")
                      \/ Includes(outcome.message, "duration limit")
                      \/ Includes(outcome.message, "Inline audio exceeds duration limit")
              THEN ErrorResponse("Audio file is too long for processing. Please try with a shorter recording (under 30 seconds).", 400)
              ELSE IF Includes(outcome.message, "audio")
              THEN ErrorResponse("Invalid audio file. Please ensure the file contains speech and is not corrupted.", 400)
              ELSE ErrorResponse("Invalid audio format. Please try a different audio file.", 400)
         [] outcome.kind = "status" /\ outcome.status \notin {400, 403} ->
              ErrorResponse("Google Speech-to-Text failed. Please try again.", 500)
         [] outcome.kind = "empty" ->
              ErrorResponse("No speech detected in the audio file.", 400)
         [] outcome.kind = "text" ->
              LET estimated == (req.audio.size + 1000) \div 2000
                  duration == IF outcome.duration # 0 THEN outcome.duration
                              ELSE IF estimated > 1 THEN estimated ELSE 1
              IN  [status |-> 200,
                   body |-> JObj(<<"text", "duration", "provider">>,
                                 <<JStr(outcome.text), JNum(NatToString(duration)),
                                   JStr("google")>>)]

\* POST of /api/transcribe/google
PostTranscribeGoogle ==
  /\ routePc = "received"
  /\ request.route = "/api/transcribe/google"
  /\ \E outcome \in {Heard("What now? The Dosage. yes", 42), Heard("Sure?!", 0),
                     NoCandidates, Threw("fetch failed"), Refused(403, ""),
                     Refused(400, "Invalid recognition 'config': bad encoding.."),
                     Refused(400, "Sync input too long."),
                     Refused(400, "Invalid audio content"), Refused(400, ""),
                     Refused(500, "")} :
       LET called == IsAudio(request.audio) /\ env.google
       IN  /\ vendorCalls' = IF called THEN vendorCalls + 1 ELSE vendorCalls
           /\ vendorReply' = IF called THEN outcome ELSE NotCalled
           /\ response' = GoogleTranscribeResponse(request, outcome)
  /\ routePc' = "done"
  /\ UNCHANGED <<request, env>>
  /\ UNCHANGED <<segVars, extVars, viewVars, pageVars, fbVars, clientVars>>

(***************************************************************************)
(* handleGenerateSummary (transcription view) and handleTranscribe (audio  *)
(* recorder)                                                               *)
(***************************************************************************)

\* response.ok
Ok(resp) == resp.status >= 200 /\ resp.status <= 299

\* errorData.error, '' when the body has none
ErrorOf(body) == IF HasMember(body, "error") THEN Member(body, "error").s ELSE ""

\* fetch('/api/summarize', { body: { text: editedText, summarizer } })
SummarizeRequest(summarizer) ==
  [route |-> "/api/summarize", hasText |-> TRUE, text |-> editedText,
   summarizer |-> summarizer, audio |-> NoAudio]

\* The catch block of handleGenerateSummary: the message it alerts.
SummaryAlert(message) ==
  IF Includes(message, "quota") \/ Includes(message, "429")
  THEN "API quota exceeded. Please check your billing or try a different provider."
  ELSE IF Includes(message, "API key")
  THEN "API key not configured. Please check your settings."
  ELSE IF Includes(message, "SERVICE_DISABLED") \/ Includes(message, "Generative Language API")
  THEN "Google Gemini API not enabled. Please enable it in Google Cloud Console or try using OpenAI instead."
  ELSE IF Includes(message, "network")
  THEN "Network error. Please check your internet connection."
  ELSE "Error generating summary. Please try again."

\* The catch block of handleTranscribe: the message it alerts.
TranscribeAlert(message) ==
  IF Includes(message, "API key")
  THEN "OpenAI API key not configured. Please add your API key to .env.local"
  ELSE IF Includes(message, "file")
  THEN "Invalid audio file format. Please try a different file."
  ELSE IF Includes(message, "quota") \/ Includes(message, "429")
          \/ Includes(message, "insufficient_quota")
  THEN "OpenAI API quota exceeded. Please check your billing at https://platform.openai.com/account/billing"
  ELSE IF Includes(message, "network")
  THEN "Network error. Please check your internet connection."
  ELSE "Error transcribing audio. Please try again."

\* The Generate Summary button: setIsLoading(true) and the first fetch.
ClickGenerateSummary ==
  /\ clientPc = "ready"
  /\ isLoading' = TRUE
  /\ requests' = Append(requests, SummarizeRequest(settings.summarizer))
  /\ request' = SummarizeRequest(settings.summarizer)
  /\ routePc' = "received"
  /\ clientPc' = "awaitFirst"
  /\ UNCHANGED <<settings, audioFile, alerted, completed>>
  /\ UNCHANGED <<env, vendorCalls, vendorReply, response>>
  /\ UNCHANGED <<segVars, extVars, viewVars, pageVars, fbVars>>

\* The message of the TypeError of a second response.json() on one response,
\* which differs from browser to browser.
BodyUsedMessages ==
  {"Failed to execute 'json' on 'Response': body stream already read",
   "Response.json: Body has already been consumed.",
   "Body is disturbed or locked"}

\* The message of the error thrown for a non-ok response: the TypeError's if
\* the body was read before, else errorData.error || 'Summary generation failed'
ThrownMessages(resp, bodyUsed) ==
  IF bodyUsed THEN BodyUsedMessages
  ELSE IF ErrorOf(resp.body) # "" THEN {ErrorOf(resp.body)}
  ELSE {"Summary generation failed"}

\* A faulty variant of SettleSummary: setIsLoading(false) at the end of the
\* try block, not in a finally block.
SettleSummaryWithoutFinally(resp, bodyUsed) ==
  /\ IF Ok(resp)
     THEN /\ completed' = resp.body
          /\ alerted' = alerted
          /\ isLoading' = FALSE
     ELSE /\ completed' = completed
          /\ \E thrown \in ThrownMessages(resp, bodyUsed) : alerted' = SummaryAlert(thrown)
          /\ isLoading' = isLoading
  /\ clientPc' = "finished"

\* The end of handleGenerateSummary on a response: non-ok responses throw
\* (reading a body a second time throws a TypeError), the catch block
\* alerts, finally clears the loading flag.
SettleSummary(resp, bodyUsed) ==
  /\ IF Ok(resp)
     THEN /\ completed' = resp.body
          /\ alerted' = alerted
     ELSE /\ completed' = completed
          /\ \E thrown \in ThrownMessages(resp, bodyUsed) : alerted' = SummaryAlert(thrown)
  /\ isLoading' = FALSE
  /\ clientPc' = "finished"

\* handleGenerateSummary after the first response.
ReceiveFirst ==
  /\ clientPc = "awaitFirst"
  /\ routePc = "done"
  /\ IF /\ ~Ok(response)
        /\ settings.summarizer = "gemini"
        /\ \/ Includes(ErrorOf(response.body), "SERVICE_DISABLED")
           \/ Includes(ErrorOf(response.body), "Generative Language API")
     THEN /\ requests' = Append(requests, SummarizeRequest("openai"))
          /\ request' = SummarizeRequest("openai")
          /\ routePc' = "received"
          /\ clientPc' = "awaitSecond"
          /\ UNCHANGED <<isLoading, alerted, completed>>
     ELSE /\ SettleSummary(response, ~Ok(response) /\ settings.summarizer = "gemini")
          /\ UNCHANGED <<requests, request, routePc>>
  /\ UNCHANGED <<settings, audioFile>>
  /\ UNCHANGED <<env, vendorCalls, vendorReply, response>>
  /\ UNCHANGED <<segVars, extVars, viewVars, pageVars, fbVars>>

\* handleGenerateSummary after the response to the second fetch.
ReceiveSecond ==
  /\ clientPc = "awaitSecond"
  /\ routePc = "done"
  /\ SettleSummary(response, FALSE)
  /\ UNCHANGED <<settings, audioFile, requests>>
  /\ UNCHANGED routeVars
  /\ UNCHANGED <<segVars, extVars, viewVars, pageVars, fbVars>>

\* The Transcribe Audio button with a file at hand: the size check for
\* Google, then setIsLoading(true) and the fetch.
ClickTranscribe ==
  /\ clientPc = "ready"
  /\ audioFile.present
  /\ IF settings.provider = "google" /\ audioFile.size > 10 * 1024 * 1024
     THEN /\ alerted' = "File is too large for Google Speech-to-Text. Please use a smaller file (under 10MB)."
          /\ clientPc' = "finished"
          /\ UNCHANGED <<requests, isLoading, request, routePc>>
     ELSE LET req == [route |-> IF settings.provider = "google"
                                THEN "/api/transcribe/google" ELSE "/api/transcribe",
                      hasText |-> FALSE, text |-> "", summarizer |-> "absent",
                      audio |-> audioFile]
          IN  /\ isLoading' = TRUE
              /\ requests' = Append(requests, req)
              /\ request' = req
              /\ routePc' = "received"
              /\ clientPc' = "awaitTranscription"
              /\ alerted' = alerted
  /\ UNCHANGED <<settings, audioFile, completed>>
  /\ UNCHANGED <<env, vendorCalls, vendorReply, response>>
  /\ UNCHANGED <<segVars, extVars, viewVars, pageVars, fbVars>>

\* handleTranscribe after the response.
ReceiveTranscription ==
  /\ clientPc = "awaitTranscription"
  /\ routePc = "done"
  /\ IF Ok(response)
     THEN /\ completed' = response.body
          /\ alerted' = alerted
     ELSE /\ completed' = completed
          /\ alerted' = TranscribeAlert(IF ErrorOf(response.body) # ""
                                        THEN ErrorOf(response.body)
                                        ELSE "Transcription failed")
  /\ isLoading' = FALSE
  /\ clientPc' = "finished"
  /\ UNCHANGED <<settings, audioFile, requests>>
  /\ UNCHANGED routeVars
  /\ UNCHANGED <<segVars, extVars, viewVars, pageVars, fbVars>>

ClientIdle ==
  /\ settings = [summarizer |-> "openai", provider |-> "openai"]
  /\ audioFile = NoAudio
  /\ clientPc = "idle"
  /\ requests = <<>>
  /\ isLoading = FALSE
  /\ alerted = ""
  /\ completed = JLit("null")

(***************************************************************************)
(* The summary view: generateSummaryText and the two handlers that use it  *)
(* (SummaryView.tsx).                                                      *)
(***************************************************************************)
\* list.join(sep)
RECURSIVE Join(_, _)
Join(list, sep) ==
  IF list = <<>> THEN ""
  ELSE IF Len(list) = 1 THEN list[1]
  ELSE list[1] \o sep \o Join(Tail(list), sep)

\* The bullet of the template, U+2022, written as an asterisk.
Bullet == "* "

BulletListOnOneLine(items) == Join([j \in 1..Len(items) |-> Bullet \o items[j]], ", ")

\* items.map(item => `<bullet> ${item}`).join('\n')
BulletList(items) == Join([j \in 1..Len(items) |-> Bullet \o items[j]], "\n")

\* `${med.name}${med.dosage ? ` - ${med.dosage}` : ''}${med.frequency ? ...`
MedicationLine(med) ==
  med.name
    \o (IF med.dosage # "" THEN " - " \o med.dosage ELSE "")
    \o (IF med.frequency # "" THEN " (" \o med.frequency \o ")" ELSE "")
    \o (IF med.notes # "" THEN " - " \o med.notes ELSE "")

\* formatTime: minutes and seconds, each padded to two digits
formatTime(seconds) ==
  LET PadStart2(str) == IF Len(str) < 2 THEN "0" \o str ELSE str
  IN  PadStart2(NatToString(seconds \div 60)) \o ":" \o PadStart2(NatToString(seconds % 60))

\* transcriptionData is null or carries a duration in seconds
NoTranscription == [present |-> FALSE, duration |-> 0]

generateSummaryText(d, td, date) ==
  "PHARMACY CONSULTATION SUMMARY\n\nKEY TOPICS:\n"
    \o BulletList(d.keyTopics)
    \o "\n\nMEDICATIONS MENTIONED:\n"
    \o BulletList([j \in 1..Len(d.medications) |-> MedicationLine(d.medications[j])])
    \o "\n\nACTION ITEMS:\n"
    \o BulletList(d.actionItems)
    \o "\n\nPATIENT CONCERNS:\n"
    \o BulletList(d.patientConcerns)
    \o "\n\nPHARMACIST RECOMMENDATIONS:\n"
    \o BulletList(d.pharmacistRecommendations)
    \o "\n\nGenerated on: " \o date
    \o "\nDuration: " \o (IF td.present THEN formatTime(td.duration) ELSE "N/A")

\* new Date().toLocaleDateString() on the day of the export
LocaleDates == {"11/4/2026"}

\* copyToClipboard
CopyToClipboard ==
  /\ \E date \in LocaleDates :
       clipboard' = generateSummaryText(data, transcriptionData, date)
  /\ copied' = TRUE
  /\ UNCHANGED <<data, transcriptionData, pdfText>>
  /\ UNCHANGED <<segVars, extVars, viewVars, editVars, shellVars, fbVars, routeVars, clientVars>>

\* setTimeout(() => setCopied(false), 2000)
CopiedTimeout ==
  /\ copied
  /\ copied' = FALSE
  /\ UNCHANGED <<data, transcriptionData, clipboard, pdfText>>
  /\ UNCHANGED <<segVars, extVars, viewVars, editVars, shellVars, fbVars, routeVars, clientVars>>

\* exportToPDF, up to the text it hands to the PDF document
ExportToPDF ==
  /\ \E date \in LocaleDates :
       pdfText' = generateSummaryText(data, transcriptionData, date)
  /\ UNCHANGED <<data, transcriptionData, clipboard, copied>>
  /\ UNCHANGED <<segVars, extVars, viewVars, editVars, shellVars, fbVars, routeVars, clientVars>>

(***************************************************************************)
(* The editor of the transcription view (TranscriptionView.tsx, the        *)
(* revision that keeps editedSpeakers).                                    *)
(***************************************************************************)
\* useState(false), useState(data.text), useState(data.speakers): the view
\* is mounted with the text and the segments of a finished transcription.
Mount ==
  /\ pc = "done"
  /\ ~mounted
  /\ mounted' = TRUE
  /\ isEditing' = FALSE
  /\ editedText' = text
  /\ editedSpeakers' = speakers
  /\ UNCHANGED <<rendered, detections>>
  /\ UNCHANGED <<segVars, extVars, summaryViewVars, shellVars, fbVars, routeVars, clientVars>>

\* The Edit button: onClick={() => setIsEditing(true)}
ClickEdit ==
  /\ mounted
  /\ ~isEditing
  /\ isEditing' = TRUE
  /\ UNCHANGED <<mounted, editedSpeakers>>
  /\ UNCHANGED <<segVars, extVars, viewVars, summaryViewVars, shellVars, fbVars, routeVars, clientVars>>

\* The texts typed into the textarea.
TypedTexts ==
  {"", "Pharmacist: Take one daily.\nPatient: Thank you", "Pharmacist:\n\nPatient:   ",
   "Any questions?", "Patient: Pharmacist: hello\n"}

\* The textarea: onChange={(e) => setEditedText(e.target.value)}
ChangeText ==
  /\ mounted
  /\ isEditing
  /\ \E typed \in TypedTexts : editedText' = typed
  /\ UNCHANGED <<rendered, detections>>
  /\ UNCHANGED editVars
  /\ UNCHANGED <<segVars, extVars, summaryViewVars, shellVars, fbVars, routeVars, clientVars>>

\* editedText.split('\n').map((line, index) => ({speaker, text, timestamp})),
\* with text: line.replace(/^(Pharmacist|Patient):\s*/, ''), which removes the
\* first match
SavedSpeakers(edited) ==
  LET lines == Split(Lit("\n"), edited)
      SpeakerPrefixRe ==
        Cat(<<Bol, Alt(<<Lit("Pharmacist"), Lit("Patient")>>), Lit(":"),
              Star(Cls(WhiteSpace))>>)
      RemoveFirst(re, line) ==
        LET m == Exec(re, line, 0)
        IN  IF m = NoMatch THEN line
            ELSE Sub(line, 0, m.start) \o Sub(line, m.end, Len(line))
  IN  [j \in 1..Len(lines) |->
         [speaker |-> IF StartsAt(lines[j], 0, "Pharmacist:") THEN "Pharmacist" ELSE "Patient",
          text |-> RemoveFirst(SpeakerPrefixRe, lines[j]),
          timestamp |-> (j - 1) * 30]]

\* handleSave, on the Save button shown while editing
HandleSave ==
  /\ mounted
  /\ isEditing
  /\ editedSpeakers' = SavedSpeakers(editedText)
  /\ isEditing' = FALSE
  /\ UNCHANGED mounted
  /\ UNCHANGED <<segVars, extVars, viewVars, summaryViewVars, shellVars, fbVars, routeVars, clientVars>>

SummaryViewIdle ==
  /\ data = NoSummary
  /\ transcriptionData = NoTranscription
  /\ clipboard = ""
  /\ pdfText = ""
  /\ copied = FALSE

EditIdle ==
  /\ mounted = FALSE
  /\ isEditing = FALSE
  /\ editedSpeakers = <<>>

(***************************************************************************)
(* The main page (Home of page.tsx) with the handlers it passes its        *)
(* setters to.  A request in flight is answered in one step: the route     *)
(* computes its response and the handler that awaited it resumes.          *)
(***************************************************************************)
\* !value for a JSON value
Falsy(v) == v \in {JLit("null"), JLit("false"), JNum("0"), JStr("")}

\* navigationItems: disabled: !transcriptionData, disabled: !summaryData
Disabled(item) ==
  CASE item = "transcription" -> Falsy(pageTranscriptionData)
    [] item = "summary" -> Falsy(pageSummaryData)
    [] OTHER -> FALSE

\* currentView === 'transcription' && transcriptionData
TranscriptionViewShown == currentView = "transcription" /\ ~Falsy(pageTranscriptionData)

\* What a render does to the state of TranscriptionView: a view that comes
\* to be shown is mounted with useState(data.text), one that stays shown
\* keeps its state, one that is no longer shown loses it.
Remount ==
  LET shownNext == currentView' = "transcription" /\ ~Falsy(pageTranscriptionData')
  IN  IF shownNext /\ ~TranscriptionViewShown
      THEN /\ editedText' = IF HasMember(pageTranscriptionData', "text")
                            THEN Member(pageTranscriptionData', "text").s ELSE ""
           /\ editedOf' = transcriptionNo'
      ELSE IF shownNext THEN UNCHANGED <<editedText, editedOf>>
      ELSE editedText' = "" /\ editedOf' = 0

\* What the steps of the page leave alone.
PageFrame ==
  /\ UNCHANGED <<rendered, detections>>
  /\ UNCHANGED <<settings, audioFile, clientPc, requests, completed>>
  /\ UNCHANGED <<segVars, extVars, summaryViewVars, editVars, panelVars, recorderVars,
                 fbVars, routeVars>>

\* A navigation button that is not disabled: onClick={() => setCurrentView(item.id)}
ClickTab ==
  /\ \E item \in {"recording", "transcription", "summary"} :
       /\ ~Disabled(item)
       /\ currentView' = item
  /\ UNCHANGED <<pageTranscriptionData, pageSummaryData, inFlight, activations,
                 transcriptionNo, summaryOf>>
  /\ UNCHANGED <<isLoading, alerted>>
  /\ Remount
  /\ PageFrame

\* At most MaxActivations activations are started.
MaxActivations == 3

\* Transcribe Audio in the recorder, with an audio at hand, up to its fetch.
StartTranscribe ==
  /\ currentView = "recording"
  /\ activations < MaxActivations
  /\ isLoading' = TRUE
  /\ activations' = activations + 1
  /\ inFlight' = inFlight \cup {[id |-> activations + 1, kind |-> "transcribe", of |-> 0,
                                 text |-> "", summarizer |-> "absent", second |-> FALSE]}
  /\ UNCHANGED <<currentView, pageTranscriptionData, pageSummaryData, transcriptionNo,
                 summaryOf, editedOf>>
  /\ UNCHANGED <<editedText, alerted>>
  /\ PageFrame

\* The responses of a transcribe route, reduced to what the page keeps of a
\* transcription (its TranscriptionData has text and duration).
TranscriptionResponses ==
  {[status |-> 200, body |-> JObj(<<"text", "duration">>, <<JStr(t), JNum("30")>>)] :
     t \in {"refill "}}
    \cup {ErrorResponse("Transcription failed. Please try again.", 500)}

\* handleTranscribe from the response on; handleTranscriptionComplete on success.
TranscriptionResponds ==
  /\ \E a \in inFlight, resp \in TranscriptionResponses :
       /\ a.kind = "transcribe"
       /\ inFlight' = inFlight \ {a}
       /\ IF Ok(resp)
          THEN /\ pageTranscriptionData' = resp.body
               /\ currentView' = "transcription"
               /\ transcriptionNo' = transcriptionNo + 1
               /\ alerted' = alerted
          ELSE /\ alerted' = TranscribeAlert(ErrorOf(resp.body))
               /\ UNCHANGED <<pageTranscriptionData, currentView, transcriptionNo>>
  /\ isLoading' = FALSE
  /\ UNCHANGED <<pageSummaryData, activations, summaryOf>>
  /\ Remount
  /\ PageFrame

\* Generate Summary in the transcription view, up to its first fetch.
StartSummary ==
  /\ TranscriptionViewShown
  /\ activations < MaxActivations
  /\ isLoading' = TRUE
  /\ activations' = activations + 1
  /\ inFlight' = inFlight \cup {[id |-> activations + 1, kind |-> "summary", of |-> editedOf,
                                 text |-> editedText, summarizer |-> settings.summarizer,
                                 second |-> FALSE]}
  /\ UNCHANGED <<currentView, pageTranscriptionData, pageSummaryData, transcriptionNo,
                 summaryOf, editedOf>>
  /\ UNCHANGED <<editedText, alerted>>
  /\ PageFrame

\* What the vendor does with the requests of the page.
PageVendorOutcomes ==
  {Replied(FullSummaryText), Replied("null"), Replied("Sorry, I cannot help."),
   Threw("SERVICE_DISABLED")}

\* /api/summarize answers and handleGenerateSummary resumes: the second
\* fetch after a Gemini error, or handleSummaryComplete, or the alert.
SummaryResponds ==
  /\ \E a \in inFlight, outcome \in PageVendorOutcomes :
       LET req == [route |-> "/api/summarize", hasText |-> TRUE, text |-> a.text,
                   summarizer |-> a.summarizer, audio |-> NoAudio]
           resp == SummarizeResponse(req, outcome)
       IN  /\ a.kind = "summary"
           /\ IF /\ ~a.second
                 /\ ~Ok(resp)
                 /\ a.summarizer = "gemini"
                 /\ \/ Includes(ErrorOf(resp.body), "SERVICE_DISABLED")
                    \/ Includes(ErrorOf(resp.body), "Generative Language API")
              THEN /\ inFlight' = (inFlight \ {a})
                                    \cup {[a EXCEPT !.second = TRUE, !.summarizer = "openai"]}
                   /\ UNCHANGED <<pageSummaryData, currentView, summaryOf, isLoading, alerted>>
              ELSE /\ inFlight' = inFlight \ {a}
                   /\ isLoading' = FALSE
                   /\ IF Ok(resp)
                      THEN /\ pageSummaryData' = resp.body
                           /\ currentView' = "summary"
                           /\ summaryOf' = a.of
                           /\ alerted' = alerted
                      ELSE /\ \E thrown \in ThrownMessages(resp, ~a.second /\ a.summarizer = "gemini") :
                                alerted' = SummaryAlert(thrown)
                           /\ UNCHANGED <<pageSummaryData, currentView, summaryOf>>
  /\ UNCHANGED <<pageTranscriptionData, activations, transcriptionNo>>
  /\ Remount
  /\ PageFrame

NoItem == [present |-> FALSE, value |-> ""]

\* useState<TranscriptionSettings>({ provider: 'google', summarizer: 'gemini', ... })
\* of Home, reduced to the two settings the handlers read.
HomeSettings == [summarizer |-> "gemini", provider |-> "google"]

HomeIdle ==
  /\ currentView = "recording"
  /\ pageTranscriptionData = JLit("null")
  /\ pageSummaryData = JLit("null")
  /\ inFlight = {}
  /\ activations = 0
  /\ transcriptionNo = 0
  /\ summaryOf = 0
  /\ editedOf = 0

PanelIdle ==
  /\ homePc = "rendered"
  /\ isSettingsOpen = FALSE
  /\ panelSettings = HomeSettings
  /\ stored = NoItem
  /\ openedWith = [settings |-> HomeSettings, stored |-> NoItem, panel |-> HomeSettings]
  /\ touched = FALSE
  /\ lastClick = "none"
  /\ discarded = FALSE

RecorderIdle ==
  /\ isRecording = FALSE
  /\ audioBlob = 0
  /\ uploadedFile = 0
  /\ audioUrl = 0
  /\ provided = 0
  /\ stopping = 0
  /\ sentAudio = 0

ShellIdle == HomeIdle /\ PanelIdle /\ RecorderIdle

PageIdle == SummaryViewIdle /\ EditIdle /\ ShellIdle

AppIdle == FbIdle /\ RouteIdle /\ ClientIdle /\ PageIdle

(***************************************************************************)
(* Specifications                                                          *)
(***************************************************************************)

\* One run of processSpeakerSegments on a transcript.
SegmenterInit == SegInit /\ ExtIdle /\ ViewIdle /\ AppIdle

SegmenterNext == Enter \/ LoopBody \/ Return

SegmenterSpec == SegmenterInit /\ [][SegmenterNext]_vars

\* One call of the extractor on a transcript.
ExtractorInit ==
  /\ SegIdle
  /\ AppIdle
  /\ ViewIdle
  /\ \E t \in ExtractorInputs : argText = [c \in Calls |-> IF c = 1 THEN t ELSE ""]
  /\ callPc = [c \in Calls |-> IF c = 1 THEN "entry" ELSE "idle"]
  /\ ExtLocalsInit

ExtractorNext == LowerCase(1) \/ Scan(1) \/ ReturnEntities(1)

ExtractorSpec == ExtractorInit /\ [][ExtractorNext]_vars

\* The transcription view showing a transcript, beside one call of the
\* extractor on the same transcript.
ViewInit ==
  /\ SegIdle
  /\ AppIdle
  /\ \E t \in ViewInputs :
       /\ argText = [c \in Calls |-> IF c = 1 THEN t ELSE ""]
       /\ editedText = t
  /\ callPc = [c \in Calls |-> IF c = 1 THEN "entry" ELSE "idle"]
  /\ ExtLocalsInit
  /\ rendered = FALSE
  /\ detections = <<>>

ViewNext ==
  \/ LowerCase(1)
  \/ Scan(1)
  \/ ReturnEntities(1)
  \/ RenderDetections

ViewSpec == ViewInit /\ [][ViewNext]_vars

\* Calls of the extractor that run interleaved, each on its own argument.
CallsInit ==
  /\ SegIdle
  /\ AppIdle
  /\ ViewIdle
  /\ argText \in [Calls -> CallInputs]
  /\ callPc = [c \in Calls |-> "entry"]
  /\ ExtLocalsInit

CallsNext == \E c \in Calls : LowerCase(c) \/ Scan(c) \/ ReturnEntities(c)

CallsSpec == CallsInit /\ [][CallsNext]_vars

\* One call of the Fallback Summary Builder, beside one call of the extractor
\* on the same transcript.
FallbackInit ==
  /\ SegIdle
  /\ ViewIdle
  /\ \E t \in FallbackInputs :
       /\ fbText = t
       /\ argText = [c \in Calls |-> IF c = 1 THEN t ELSE ""]
  /\ fbPc = "entry"
  /\ fbSummary = NoSummary
  /\ RouteIdle
  /\ ClientIdle
  /\ PageIdle
  /\ callPc = [c \in Calls |-> IF c = 1 THEN "entry" ELSE "idle"]
  /\ ExtLocalsInit

FallbackNext ==
  \/ CallFallback
  \/ LowerCase(1)
  \/ Scan(1)
  \/ ReturnEntities(1)

FallbackSpec == FallbackInit /\ [][FallbackNext]_vars

\* A summarize route answering one request.
RouteInit ==
  /\ SegIdle
  /\ ExtIdle
  /\ ViewIdle
  /\ FbIdle
  /\ ClientIdle
  /\ PageIdle
  /\ request \in Requests
  /\ env \in Envs
  /\ routePc = "received"
  /\ vendorCalls = 0
  /\ vendorReply = NotCalled
  /\ response = NoResponse

RouteNext == PostSummarize \/ PostGemini

RouteSpec == RouteInit /\ [][RouteNext]_vars

\* One activation of Generate Summary or of Transcribe Audio in the browser,
\* with the routes that answer its requests.
ClientInit ==
  /\ SegIdle
  /\ ExtIdle
  /\ FbIdle
  /\ PageIdle
  /\ editedText \in RequestTexts
  /\ rendered = FALSE
  /\ detections = <<>>
  /\ request = NoRequest
  /\ env \in Envs
  /\ routePc = "idle"
  /\ vendorCalls = 0
  /\ vendorReply = NotCalled
  /\ response = NoResponse
  /\ settings \in [summarizer : {"openai", "gemini"}, provider : {"openai", "google"}]
  /\ audioFile \in {NoAudio,
                    [present |-> TRUE, type |-> "audio/webm", size |-> 64000],
                    [present |-> TRUE, type |-> "audio/mpeg", size |-> 11 * 1024 * 1024]}
  /\ clientPc = "ready"
  /\ requests = <<>>
  /\ isLoading = FALSE
  /\ alerted = ""
  /\ completed = JLit("null")

ClientNext ==
  \/ ClickGenerateSummary
  \/ PostSummarize
  \/ ReceiveFirst
  \/ ReceiveSecond
  \/ ClickTranscribe
  \/ PostTranscribe
  \/ Enter
  \/ LoopBody
  \/ Return
  \/ RespondTranscribe
  \/ PostTranscribeGoogle
  \/ ReceiveTranscription

ClientSpec == ClientInit /\ [][ClientNext]_vars

\* The steps that need no user: the routes answer the requests they were
\* sent and the handlers resume on the responses.
ClientProgress ==
  \/ PostSummarize
  \/ ReceiveFirst
  \/ ReceiveSecond
  \/ PostTranscribe
  \/ Enter
  \/ LoopBody
  \/ Return
  \/ RespondTranscribe
  \/ PostTranscribeGoogle
  \/ ReceiveTranscription

\* One activation, on one transcript, in which every request sent is answered.
ClientLiveInit == ClientInit /\ editedText = "refill "

ClientLiveSpec == ClientLiveInit /\ [][ClientNext]_vars /\ WF_vars(ClientProgress)

(***************************************************************************)
(* The settings panel.  Home holds the settings in use; SettingsPanel is   *)
(* mounted with the page and holds a copy of its own, which it keeps while *)
(* it is closed (it renders null, it is not unmounted).  The settings are  *)
(* reduced to the provider and the summarizer.                             *)
(***************************************************************************)
\* defaultSettings of SettingsPanel.tsx
defaultSettings == [summarizer |-> "openai", provider |-> "openai"]

AllSettings == [summarizer : {"openai", "gemini"}, provider : {"openai", "google"}]

\* JSON.stringify(settings): the keys in the order of the object literal
StringifySettings(s) ==
  "{\"provider\":\"" \o s.provider \o "\",\"summarizer\":\"" \o s.summarizer \o "\"}"

\* The settings that a parsed item is when it is passed to setSettings
SettingsOf(v) ==
  [summarizer |-> Member(v, "summarizer").s, provider |-> Member(v, "provider").s]

\* What the steps of the settings panel leave alone.
SettingsFrame ==
  /\ UNCHANGED <<audioFile, clientPc, requests, isLoading, alerted, completed>>
  /\ UNCHANGED <<segVars, extVars, viewVars, fbVars, routeVars>>
  /\ UNCHANGED <<summaryViewVars, editVars, homeVars, recorderVars>>

\* useEffect(() => { ... }, []) of Home: once, after the first render
LoadSettings ==
  /\ homePc = "rendered"
  /\ homePc' = "loaded"
  /\ IF stored.present /\ stored.value # "" /\ JSONparse(stored.value).ok
     THEN settings' = SettingsOf(JSONparse(stored.value).v)
     ELSE settings' = settings
  /\ UNCHANGED <<isSettingsOpen, panelSettings, stored, openedWith, touched, lastClick,
                 discarded>>
  /\ SettingsFrame

\* The Settings button of the header: setIsSettingsOpen(true)
OpenSettings ==
  /\ homePc = "loaded"
  /\ ~isSettingsOpen
  /\ isSettingsOpen' = TRUE
  /\ openedWith' = [settings |-> settings, stored |-> stored, panel |-> panelSettings]
  /\ touched' = FALSE
  /\ lastClick' = "none"
  /\ discarded' = IF lastClick = "save" THEN FALSE ELSE discarded
  /\ UNCHANGED <<homePc, panelSettings, stored, settings>>
  /\ SettingsFrame

\* A provider card: setSettings({ ...settings, provider })
ChooseProvider ==
  /\ isSettingsOpen
  /\ \E provider \in {"openai", "google"} :
       panelSettings' = [panelSettings EXCEPT !.provider = provider]
  /\ touched' = TRUE
  /\ UNCHANGED <<homePc, isSettingsOpen, stored, openedWith, lastClick, discarded, settings>>
  /\ SettingsFrame

\* A summarizer card: setSettings({ ...settings, summarizer })
ChooseSummarizer ==
  /\ isSettingsOpen
  /\ \E summarizer \in {"openai", "gemini"} :
       panelSettings' = [panelSettings EXCEPT !.summarizer = summarizer]
  /\ touched' = TRUE
  /\ UNCHANGED <<homePc, isSettingsOpen, stored, openedWith, lastClick, discarded, settings>>
  /\ SettingsFrame

\* Reset to Defaults
handleReset ==
  /\ isSettingsOpen
  /\ panelSettings' = defaultSettings
  /\ touched' = TRUE
  /\ UNCHANGED <<homePc, isSettingsOpen, stored, openedWith, lastClick, discarded, settings>>
  /\ SettingsFrame

\* Save Settings: setItem, onSettingsChange(settings), onClose()
handleSaveSettings ==
  /\ isSettingsOpen
  /\ stored' = [present |-> TRUE, value |-> StringifySettings(panelSettings)]
  /\ settings' = panelSettings
  /\ isSettingsOpen' = FALSE
  /\ lastClick' = "save"
  /\ UNCHANGED <<homePc, panelSettings, openedWith, touched, discarded>>
  /\ SettingsFrame

\* Cancel and the close button: onClose()
Dismiss ==
  /\ isSettingsOpen
  /\ isSettingsOpen' = FALSE
  /\ lastClick' = "cancel"
  /\ discarded' = (discarded \/ panelSettings # openedWith.panel)
  /\ UNCHANGED <<homePc, panelSettings, stored, openedWith, touched, settings>>
  /\ SettingsFrame

\* The page at its first render, with whatever an earlier visit has stored.
SettingsInit ==
  /\ SegIdle
  /\ ExtIdle
  /\ ViewIdle
  /\ FbIdle
  /\ RouteIdle
  /\ SummaryViewIdle
  /\ EditIdle
  /\ HomeIdle
  /\ RecorderIdle
  /\ settings = HomeSettings
  /\ audioFile = NoAudio
  /\ clientPc = "idle"
  /\ requests = <<>>
  /\ isLoading = FALSE
  /\ alerted = ""
  /\ completed = JLit("null")
  /\ homePc = "rendered"
  /\ isSettingsOpen = FALSE
  /\ panelSettings = settings
  /\ stored \in {NoItem} \cup {[present |-> TRUE, value |-> StringifySettings(s)] :
                                s \in AllSettings}
  /\ openedWith = [settings |-> settings, stored |-> stored, panel |-> panelSettings]
  /\ touched = FALSE
  /\ lastClick = "none"
  /\ discarded = FALSE

SettingsNext ==
  \/ LoadSettings
  \/ OpenSettings
  \/ ChooseProvider
  \/ ChooseSummarizer
  \/ handleReset
  \/ handleSaveSettings
  \/ Dismiss

SettingsSpec == SettingsInit /\ [][SettingsNext]_vars

(***************************************************************************)
(* The audio recorder (AudioRecorder), up to the request it sends.         *)
(***************************************************************************)
\* At most MaxAudios audios are recorded or uploaded.
MaxAudios == 3

\* What the steps of the recorder leave alone.
RecorderFrame ==
  /\ UNCHANGED <<settings, audioFile, clientPc, requests, completed>>
  /\ UNCHANGED <<segVars, extVars, viewVars, fbVars, routeVars>>
  /\ UNCHANGED <<summaryViewVars, editVars, homeVars, panelVars>>

\* onDrop: a file whose type starts with 'audio/' becomes the uploaded file
\* and the player's audio; any other file is ignored.
onDrop ==
  /\ provided + stopping < MaxAudios
  /\ \E isAudioType \in BOOLEAN :
       IF isAudioType
       THEN /\ provided' = provided + 1
            /\ uploadedFile' = provided + 1
            /\ audioUrl' = provided + 1
       ELSE UNCHANGED <<provided, uploadedFile, audioUrl>>
  /\ UNCHANGED <<isRecording, audioBlob, stopping, sentAudio, isLoading, alerted>>
  /\ RecorderFrame

\* Start Recording, shown while not recording: the microphone is granted and
\* the recorder started, or getUserMedia rejects and the catch alerts.
startRecording ==
  /\ ~isRecording
  /\ provided + stopping < MaxAudios
  /\ \E granted \in BOOLEAN :
       IF granted
       THEN isRecording' = TRUE /\ alerted' = alerted
       ELSE /\ isRecording' = isRecording
            /\ alerted' = "Error accessing microphone. Please ensure you have granted microphone permissions."
  /\ UNCHANGED <<audioBlob, uploadedFile, audioUrl, provided, stopping, sentAudio, isLoading>>
  /\ RecorderFrame

\* Stop Recording, shown while recording: mediaRecorder.stop()
stopRecording ==
  /\ isRecording
  /\ isRecording' = FALSE
  /\ stopping' = stopping + 1
  /\ UNCHANGED <<audioBlob, uploadedFile, audioUrl, provided, sentAudio, isLoading, alerted>>
  /\ RecorderFrame

\* mediaRecorder.onstop: the recording becomes the blob and the player's audio
onstop ==
  /\ stopping > 0
  /\ stopping' = stopping - 1
  /\ provided' = provided + 1
  /\ audioBlob' = provided + 1
  /\ audioUrl' = provided + 1
  /\ UNCHANGED <<isRecording, uploadedFile, sentAudio, isLoading, alerted>>
  /\ RecorderFrame

\* (audioBlob || uploadedFile), the condition of the Transcribe Audio button
TranscribeOffered == audioBlob # 0 \/ uploadedFile # 0

\* uploadedFile || audioBlob
fileToTranscribe == IF uploadedFile # 0 THEN uploadedFile ELSE audioBlob

\* handleTranscribe up to its fetch: with Google a file of more than 10 MB is
\* refused with an alert, any other file is appended to the form data.
handleTranscribe ==
  /\ TranscribeOffered
  /\ fileToTranscribe # 0
  /\ \E over10MB \in BOOLEAN :
       IF settings.provider = "google" /\ over10MB
       THEN /\ alerted' = "File is too large for Google Speech-to-Text. Please use a smaller file (under 10MB)."
            /\ UNCHANGED <<sentAudio, isLoading>>
       ELSE /\ sentAudio' = fileToTranscribe
            /\ isLoading' = TRUE
            /\ alerted' = alerted
  /\ UNCHANGED <<isRecording, audioBlob, uploadedFile, audioUrl, provided, stopping>>
  /\ RecorderFrame

\* The recorder as the page first shows it.
RecorderInit ==
  /\ SegIdle
  /\ ExtIdle
  /\ ViewIdle
  /\ FbIdle
  /\ RouteIdle
  /\ SummaryViewIdle
  /\ EditIdle
  /\ ShellIdle
  /\ settings \in [summarizer : {"gemini"}, provider : {"openai", "google"}]
  /\ audioFile = NoAudio
  /\ clientPc = "idle"
  /\ requests = <<>>
  /\ isLoading = FALSE
  /\ alerted = ""
  /\ completed = JLit("null")

RecorderNext ==
  \/ onDrop
  \/ startRecording
  \/ stopRecording
  \/ onstop
  \/ handleTranscribe

RecorderSpec == RecorderInit /\ [][RecorderNext]_vars

\* The main page from its first render, with both vendors configured.
PageInit ==
  /\ SegIdle
  /\ ExtIdle
  /\ ViewIdle
  /\ FbIdle
  /\ SummaryViewIdle
  /\ EditIdle
  /\ ShellIdle
  /\ request = NoRequest
  /\ env = [openai |-> TRUE, google |-> TRUE]
  /\ routePc = "idle"
  /\ vendorCalls = 0
  /\ vendorReply = NotCalled
  /\ response = NoResponse
  /\ settings \in [summarizer : {"openai", "gemini"}, provider : {"google"}]
  /\ audioFile = NoAudio
  /\ clientPc = "idle"
  /\ requests = <<>>
  /\ isLoading = FALSE
  /\ alerted = ""
  /\ completed = JLit("null")

PageNext ==
  \/ ClickTab
  \/ StartTranscribe
  \/ TranscriptionResponds
  \/ StartSummary
  \/ SummaryResponds

PageSpec == PageInit /\ [][PageNext]_vars

\* The transcription view mounted with the result of one transcription and
\* edited any number of times.
EditTranscripts ==
  {"", "Hello. ", "Take one daily. Any questions? ", "What now? The Dosage. yes",
   "Hi. How are you? I am fine. Take 5 mg. ", "A. B. C. D. E. ", "what."}

EditInit ==
  /\ text \in EditTranscripts
  /\ pc = "entry"
  /\ sentences = <<>>
  /\ i = 0
  /\ currentSpeaker = "Pharmacist"
  /\ currentText = ""
  /\ timestamp = 0
  /\ speakers = <<>>
  /\ ExtIdle
  /\ ViewIdle
  /\ FbIdle
  /\ RouteIdle
  /\ ClientIdle
  /\ SummaryViewIdle
  /\ EditIdle
  /\ ShellIdle

EditNext ==
  \/ Enter
  \/ LoopBody
  \/ Return
  \/ Mount
  \/ ClickEdit
  \/ ChangeText
  \/ HandleSave

EditSpec == EditInit /\ [][EditNext]_vars

\* The summary view showing one summary, of at most MaxItems medications.
MaxItems == 2

ListsOver(items, n) == UNION {[1..m -> items] : m \in 0..n}

SummaryMedications ==
  {[name |-> "Aspirin", dosage |-> "81mg", frequency |-> "", notes |-> "with food"],
   [name |-> "Lisinopril", dosage |-> "", frequency |-> "daily", notes |-> ""]}

Summaries ==
  [keyTopics : {<<>>, <<"Side Effects">>, <<"Refill Request", "Side Effects">>},
   medications : ListsOver(SummaryMedications, MaxItems),
   actionItems : {<<>>, <<"Call doctor", "Schedule follow-up">>},
   patientConcerns : {<<>>, <<"Cost and insurance">>},
   pharmacistRecommendations : {<<>>, <<"Take with food", "Monitor for side effects">>}]

SummaryViewInit ==
  /\ SegIdle
  /\ ExtIdle
  /\ ViewIdle
  /\ FbIdle
  /\ RouteIdle
  /\ ClientIdle
  /\ EditIdle
  /\ ShellIdle
  /\ data \in Summaries
  /\ transcriptionData \in {NoTranscription, [present |-> TRUE, duration |-> 125]}
  /\ clipboard = ""
  /\ pdfText = ""
  /\ copied = FALSE

SummaryViewNext ==
  \/ CopyToClipboard
  \/ CopiedTimeout
  \/ ExportToPDF

SummaryViewSpec == SummaryViewInit /\ [][SummaryViewNext]_vars

(***************************************************************************)
(* Properties of the Speaker Segmenter                                     *)
(***************************************************************************)
Min(a, b) == IF a < b THEN a ELSE b

\* The 1-based index of the last sentence of segment k (1-based).
LastSentenceOf(k) == Min(2 * k, Len(sentences))

\* C1: the k-th emitted segment (k = 0, 1, 2, ...) has timestamp 60*k, the
\* counter value at the start of its window of up to two sentences; a
\* transcript of exactly two sentences yields one segment with timestamp 0.
C1_TimestampIsWindowStart ==
  \A k \in 1..Len(speakers) : speakers[k].timestamp = 60 * (k - 1)

\* The speaker the rule of C2 gives after the first m sentences.
ClaimedSpeakerAfter(m) ==
  LET F[j \in 0..m] ==
        IF j = 0 THEN "Pharmacist"
        ELSE LET sentence == Trim(sentences[j])
             IN  IF HasMedicalTerms(sentence) THEN "Pharmacist"
                 ELSE IF IsQuestion(sentence) THEN "Patient"
                 ELSE F[j - 1]
  IN  F[m]

\* C2: the speaker of each emitted segment is the running speaker after the
\* last sentence of that segment, where the running speaker starts as
\* Pharmacist, becomes Pharmacist on a sentence with a medical term, Patient
\* on a question without one, stays otherwise, and is never reset.
C2_SpeakerIsStateAtEmission ==
  \A k \in 1..Len(speakers) :
    speakers[k].speaker = ClaimedSpeakerAfter(LastSentenceOf(k))

\* A later segment labelled Patient although neither of its own sentences is
\* a question: the label was carried over from an earlier segment.
C2_Witness ==
  /\ pc = "done"
  /\ \E k \in 2..Len(speakers) :
       /\ speakers[k].speaker = "Patient"
       /\ \A j \in (2 * k - 1)..LastSentenceOf(k) : ~IsQuestion(Trim(sentences[j]))

\* The text of segment k when it holds sentences 2k-1 and 2k (1-based), or
\* the single last sentence.
ClaimedSegmentText(k) ==
  IF 2 * k <= Len(sentences)
  THEN Trim(sentences[2 * k - 1]) \o ". " \o Trim(sentences[2 * k]) \o "."
  ELSE Trim(sentences[2 * k - 1]) \o "."

\* C3: n sentences give ceil(n/2) segments, segment k holding sentences 2k
\* and 2k+1 (0-based; the last one a single sentence when n is odd), every
\* text non-empty, timestamps non-negative and strictly increasing.
C3_SegmentsPairSentences ==
  pc = "done" =>
    /\ Len(speakers) = (Len(sentences) + 1) \div 2
    /\ \A k \in 1..Len(speakers) :
         /\ speakers[k].text = ClaimedSegmentText(k)
         /\ Len(speakers[k].text) > 0
         /\ speakers[k].timestamp >= 0
         /\ k > 1 => speakers[k - 1].timestamp < speakers[k].timestamp

\* An odd number of sentences, at least five: the last segment holds one.
C3_Witness ==
  /\ pc = "done"
  /\ Len(sentences) % 2 = 1
  /\ Len(sentences) >= 5
  /\ Len(speakers) >= 3

NoTerminator(t) == ~Includes(t, ".") /\ ~Includes(t, "!") /\ ~Includes(t, "?")

\* C4: a transcript with none of . ! ? gives exactly one segment when its
\* trimmed text is non-empty and no segment otherwise.
C4_NoPunctuationOneSegment ==
  (pc = "done" /\ NoTerminator(text)) =>
    Len(speakers) = (IF Len(Trim(text)) > 0 THEN 1 ELSE 0)

\* A whitespace-only transcript went through the segmenter.
C4_Witness ==
  /\ pc = "done"
  /\ Len(text) > 0
  /\ Trim(text) = ""
  /\ speakers = <<>>

(***************************************************************************)
(* Properties of the Entity Extractor                                      *)
(***************************************************************************)
Range(list) == {list[j] : j \in 1..Len(list)}

IndexIn(list, x) == CHOOSE j \in 1..Len(list) : list[j] = x

Count(list, x) == Cardinality({j \in 1..Len(list) : list[j] = x})

CategoryOrder ==
  <<"Medications", "Dosages", "Side Effects", "Allergies", "Drug Interactions">>

\* The list a call computed for a category, before the final filter.
LocalItems(c, name) ==
  CASE name = "Medications" -> medications[c]
    [] name = "Dosages" -> dosages[c]
    [] name = "Side Effects" -> sideEffects[c]
    [] name = "Allergies" -> allergies[c]
    [] name = "Drug Interactions" -> interactions[c]

\* The items of a category of the returned value, none when it is absent.
ItemsOf(c, name) ==
  LET at == {j \in 1..Len(result[c]) : result[c][j].name = name}
  IN  IF at = {} THEN <<>> ELSE result[c][CHOOSE j \in at : TRUE].items

\* C5: the result holds exactly the categories with at least one item, never
\* one with an empty item list, in the fixed relative order Medications,
\* Dosages, Side Effects, Allergies, Drug Interactions.
C5_NonEmptyCategoriesInFixedOrder ==
  \A c \in Calls :
    callPc[c] = "done" =>
      /\ \A j \in 1..Len(result[c]) :
           /\ result[c][j].name \in Range(CategoryOrder)
           /\ Len(result[c][j].items) > 0
           /\ result[c][j].items = LocalItems(c, result[c][j].name)
      /\ \A name \in Range(CategoryOrder) :
           Len(LocalItems(c, name)) > 0 => \E j \in 1..Len(result[c]) : result[c][j].name = name
      /\ \A j, k \in 1..Len(result[c]) :
           j < k => IndexIn(CategoryOrder, result[c][j].name)
                      < IndexIn(CategoryOrder, result[c][k].name)

\* The allergy is mentioned before the medication, the result lists the
\* medication first, and three categories are absent.
C5_Witness ==
  /\ callPc[1] = "done"
  /\ argText[1] = "allergy latex Warfarin "
  /\ [j \in 1..Len(result[1]) |-> result[1][j].name] = <<"Medications", "Allergies">>

EqualIgnoringCase(a, b) ==
  /\ Len(a) = Len(b)
  /\ \A q \in 0..(Len(a) - 1) : LowerChar(CharAt(a, q)) = LowerChar(CharAt(b, q))

\* word occurs in t at offset p, whatever the case of the letters of t.
OccursAt(t, p, word) ==
  /\ p + Len(word) <= Len(t)
  /\ EqualIgnoringCase(Sub(t, p, p + Len(word)), word)

OccursIn(t, word) == \E p \in 0..(Len(t) - Len(word)) : OccursAt(t, p, word)

\* list holds exactly the entries of vocabulary that occur in t, once each,
\* in vocabulary order.
ListsVocabularyOnce(list, vocabulary, t) ==
  /\ \A j \in 1..Len(list) : list[j] \in Range(vocabulary)
  /\ \A j \in 1..Len(vocabulary) :
       Count(list, vocabulary[j]) = (IF OccursIn(t, vocabulary[j]) THEN 1 ELSE 0)
  /\ \A j, k \in 1..Len(list) :
       j < k => IndexIn(vocabulary, list[j]) < IndexIn(vocabulary, list[k])

\* C6: Medications and Side Effects list every vocabulary entry that occurs
\* as a case-insensitive substring of the transcript exactly once, in the
\* lowercase form and the order of the vocabulary list.
C6_VocabularyListedOnceInListOrder ==
  \A c \in Calls :
    callPc[c] = "done" =>
      /\ ListsVocabularyOnce(ItemsOf(c, "Medications"), MedicationNames, argText[c])
      /\ ListsVocabularyOnce(ItemsOf(c, "Side Effects"), SideEffectNames, argText[c])

\* hydrocodone, the last entry, comes first in the text and Aspirin is
\* mentioned twice with a capital.
C6_Witness ==
  /\ callPc[1] = "done"
  /\ argText[1] = "hydrocodoneAspirin Aspirin "
  /\ ItemsOf(1, "Medications") = <<"aspirin", "hydrocodone">>

\* The end of the run of characters of set that starts at offset p.
RECURSIVE RunEnd(_, _, _)
RunEnd(t, p, set) ==
  IF p < Len(t) /\ CharAt(t, p) \in set THEN RunEnd(t, p + 1, set) ELSE p

\* The occurrences of a dosage from offset from on, leftmost first, none
\* overlapping the one before it.
RECURSIVE ClaimedDosages(_, _)
ClaimedDosages(t, from) ==
  LET starts == {a \in from..Len(t) :
                   \E d \in (a + 1)..RunEnd(t, a, Digits) :
                     \E w \in d..RunEnd(t, d, WhiteSpace) :
                       \E u \in 1..Len(DosageUnits) : OccursAt(t, w, DosageUnits[u])}
  IN  IF starts = {} THEN <<>>
      ELSE LET a == CHOOSE a \in starts : \A x \in starts : a <= x
               d == RunEnd(t, a, Digits)
               w == RunEnd(t, d, WhiteSpace)
               u == CHOOSE u \in 1..Len(DosageUnits) : OccursAt(t, w, DosageUnits[u])
               b == w + Len(DosageUnits[u])
           IN  <<Sub(t, a, b)>> \o ClaimedDosages(t, b)

\* C7: Dosages holds every non-overlapping occurrence of a number, optional
\* whitespace and a unit (matched in any case), in order of appearance,
\* repeats kept, each as it is written in the transcript.
C7_DosagesEveryOccurrenceInOrder ==
  \A c \in Calls :
    callPc[c] = "done" => ItemsOf(c, "Dosages") = ClaimedDosages(argText[c], 0)

\* The same dosage twice, written with a capital.
C7_Witness ==
  /\ callPc[1] = "done"
  /\ argText[1] = "3 Tablets3 Tablets12"
  /\ ItemsOf(1, "Dosages") = <<"3 Tablet", "3 Tablet">>

\* The offsets at which some word of words occurs in t.
WordStarts(t, words) ==
  {p \in 0..Len(t) : \E j \in 1..Len(words) : OccursAt(t, p, words[j])}

\* The span that starts with a trigger at offset a and ends with the first
\* closing word that follows the trigger on the same line; NoMatch if none.
FirstSpanAt(t, a, triggers, closers) ==
  LET trigs == {j \in 1..Len(triggers) : OccursAt(t, a, triggers[j])}
  IN  IF trigs = {} THEN NoMatch
      ELSE LET after == a + Len(triggers[CHOOSE j \in trigs :
                                           \A h \in trigs : Len(triggers[j]) <= Len(triggers[h])])
               nexts == {x \in WordStarts(t, closers) : x >= after}
           IN  IF nexts = {} THEN NoMatch
               ELSE LET x == CHOOSE x \in nexts : \A y \in nexts : x <= y
                        word == closers[CHOOSE j \in 1..Len(closers) : OccursAt(t, x, closers[j])]
                    IN  IF \E q \in after..(x - 1) : CharAt(t, q) \in LineTerminators
                        THEN NoMatch
                        ELSE [start |-> a, end |-> x + Len(word)]

\* The shortest spans of t from offset from on, leftmost first, none
\* overlapping the one before it.
RECURSIVE ClaimedSpans(_, _, _, _)
ClaimedSpans(t, from, triggers, closers) ==
  LET starts == {a \in from..Len(t) : FirstSpanAt(t, a, triggers, closers) # NoMatch}
  IN  IF starts = {} THEN <<>>
      ELSE LET a == CHOOSE a \in starts : \A x \in starts : a <= x
               m == FirstSpanAt(t, a, triggers, closers)
           IN  <<Sub(t, m.start, m.end)>> \o ClaimedSpans(t, m.end, triggers, closers)

\* C8: each Allergies item starts at a trigger word and ends at the first
\* allergen that follows it with no line break in between, never at a later
\* one; the same holds for Drug Interactions; the items of a category do not
\* overlap and are in order of appearance.
C8_ShortestSpans ==
  \A c \in Calls :
    callPc[c] = "done" =>
      /\ ItemsOf(c, "Allergies") = ClaimedSpans(argText[c], 0, AllergyTriggers, Allergens)
      /\ ItemsOf(c, "Drug Interactions")
           = ClaimedSpans(argText[c], 0, InteractionTriggers, InteractionObjects)

\* Two allergens follow the trigger on its line: the item ends at the first.
C8_Witness ==
  /\ callPc[1] = "done"
  /\ argText[1] = "Allergic to  latex Aspirin"
  /\ ItemsOf(1, "Allergies") = <<"Allergic to  latex">>

\* C9: two calls of the extractor on the same string return the same value,
\* whatever other calls run between or beside them.
C9_SameArgumentSameResult ==
  \A c, d \in Calls :
    (callPc[c] = "done" /\ callPc[d] = "done" /\ argText[c] = argText[d])
      => result[c] = result[d]

\* Two calls on one string and a call on another string have all returned.
C9_Witness ==
  /\ \A c \in Calls : callPc[c] = "done"
  /\ argText[1] = argText[3]
  /\ argText[1] # argText[2]
  /\ result[1] # <<>>
  /\ result[2] # <<>>

\* C10: the detections the transcription view computes for a transcript are
\* the result of the Entity Extractor for that transcript.
C10_ViewDetectionsMatchExtractor ==
  (callPc[1] = "done" /\ rendered /\ editedText = argText[1])
    => detections = result[1]


(***************************************************************************)
(* Properties of the Fallback Summary Builder                              *)
(***************************************************************************)
SummaryFields ==
  {"keyTopics", "medications", "actionItems", "patientConcerns",
   "pharmacistRecommendations"}

RulesOf(field) ==
  CASE field = "keyTopics" -> TopicRules
    [] field = "actionItems" -> ActionRules
    [] field = "patientConcerns" -> ConcernRules
    [] field = "pharmacistRecommendations" -> RecommendationRules

TriggersOf(field) ==
  IF field = "medications" THEN Range(FallbackMedicationNames)
  ELSE {RulesOf(field)[j].trigger : j \in 1..Len(RulesOf(field))}

PlaceholderOf(field) ==
  CASE field = "keyTopics" -> "General consultation"
    [] field = "medications" -> MedicationEntry(NoMedicationsName)
    [] field = "actionItems" -> "Review consultation notes"
    [] field = "patientConcerns" -> "General health discussion"
    [] field = "pharmacistRecommendations" -> "Follow prescribed regimen"

\* C11: the fallback summary has all five fields, each a non-empty list, and
\* a list is exactly its single placeholder entry if and only if none of the
\* field's triggers occurs in the transcript.
C11_FieldsPresentAndNonEmpty ==
  fbPc = "done" =>
    /\ DOMAIN fbSummary = SummaryFields
    /\ \A field \in SummaryFields :
         /\ Len(fbSummary[field]) > 0
         /\ (fbSummary[field] = <<PlaceholderOf(field)>>)
              <=> ~(\E trigger \in TriggersOf(field) : OccursIn(fbText, trigger))

\* Only an action trigger occurs: one field holds a label, the other four
\* their placeholders.
C11_Witness ==
  /\ fbPc = "done"
  /\ fbText = "call "
  /\ fbSummary.actionItems = <<"Call patient with updates">>
  /\ \A field \in SummaryFields \ {"actionItems"} :
       fbSummary[field] = <<PlaceholderOf(field)>>

\* The labels of the rules of a field whose trigger occurs in t, in rule order.
ClaimedLabels(field, t) ==
  LET hits == SelectSeq(RulesOf(field), LAMBDA r : OccursIn(t, r.trigger))
  IN  [j \in 1..Len(hits) |-> hits[j].label]

\* x comes before y in list.
Before(list, x, y) ==
  \E j, k \in 1..Len(list) : j < k /\ list[j] = x /\ list[k] = y

\* C12: each of keyTopics, actionItems, patientConcerns and
\* pharmacistRecommendations holds, when a trigger of the field occurs,
\* exactly the labels whose trigger occurs in the whole transcript in any
\* case, in rule order; the fields fire independently: with "side effect" and
\* "refill", keyTopics has "Side effects" before "Refill request", actionItems
\* has "Process medication refill" and patientConcerns "Medication side
\* effects".
C12_LabelsOfMatchingTriggersInRuleOrder ==
  fbPc = "done" =>
    /\ \A field \in SummaryFields \ {"medications"} :
         ClaimedLabels(field, fbText) # <<>>
           => fbSummary[field] = ClaimedLabels(field, fbText)
    /\ (OccursIn(fbText, "side effect") /\ OccursIn(fbText, "refill")) =>
         /\ Before(fbSummary.keyTopics, "Side effects", "Refill request")
         /\ "Process medication refill" \in Range(fbSummary.actionItems)
         /\ "Medication side effects" \in Range(fbSummary.patientConcerns)

\* The refill is mentioned before the side effect, the dosage in capitals.
C12_Witness ==
  /\ fbPc = "done"
  /\ fbText = "refill Dosage side effect "
  /\ fbSummary.keyTopics = <<"Side effects", "Dosage instructions", "Refill request">>
  /\ fbSummary.actionItems = <<"Process medication refill">>
  /\ fbSummary.patientConcerns = <<"Medication side effects">>

\* The medications the claim of C13 derives from the extractor's result.
ClaimedFallbackMedications(items) ==
  IF items = <<>> THEN <<MedicationEntry(NoMedicationsName)>>
  ELSE [j \in 1..Len(items) |-> MedicationEntry(Capitalize(items[j]))]

\* C13: the medications of the fallback summary are the items of the Entity
\* Extractor's Medications category for the same transcript, in the same
\* order, capitalized, with empty dosage, frequency and notes; the
\* placeholder appears if and only if the extractor finds no medication.
C13_FallbackMedicationsAreExtractorMedications ==
  (fbPc = "done" /\ callPc[1] = "done" /\ argText[1] = fbText)
    => fbSummary.medications = ClaimedFallbackMedications(ItemsOf(1, "Medications"))


(***************************************************************************)
(* Properties of the summarize routes                                      *)
(***************************************************************************)

\* The response is a success that carries summary in its five fields.
CarriesSummary(resp, summary) ==
  /\ resp.status = 200
  /\ ~HasMember(resp.body, "error")
  /\ \A field \in SummaryFields :
       /\ HasMember(resp.body, field)
       /\ Member(resp.body, field) = Member(SummaryToJson(summary), field)

\* C14: when the vendor's call succeeds and its reply text is not valid JSON,
\* the empty reply included, the route answers with a success that carries
\* the fallback summary of the request's transcript, never with an error.
C14_UnparsableReplyGivesFallback ==
  (routePc = "done" /\ vendorReply.kind = "text" /\ ~JSONparse(vendorReply.text).ok)
    => CarriesSummary(response, createFallbackSummary(request.text))

\* The body has the five fields of a StructuredSummary, each a non-empty list.
IsStructuredSummary(body) ==
  \A field \in SummaryFields :
    /\ HasMember(body, field)
    /\ Member(body, field).t = "arr"
    /\ Len(Member(body, field).items) > 0

\* C15: every summary a summarize route returns with a success status has
\* all five fields, each a non-empty list, whatever text the vendor returned.
C15_SuccessCarriesFullSummary ==
  (routePc = "done" /\ response.status = 200) => IsStructuredSummary(response.body)

\* C17: a summarize request whose text is missing or empty is answered with
\* status 400 and the error "No text provided", no vendor call is made, and
\* this does not depend on an API key being configured.
C17_NoTextIsRejectedFirst ==
  (routePc = "done" /\ (~request.hasText \/ Len(request.text) = 0)) =>
    /\ response = [status |-> 400, body |-> JObj(<<"error">>, <<JStr("No text provided")>>)]
    /\ vendorCalls = 0
    /\ vendorReply = NotCalled

\* An empty text sent to the Gemini route while no key is configured: the
\* answer is the 400 of the text check, not the 500 of the key check.
C17_Witness ==
  /\ routePc = "done"
  /\ request.route = "/api/summarize/gemini"
  /\ request.hasText
  /\ request.text = ""
  /\ ~env.google
  /\ response.status = 400


(***************************************************************************)
(* Properties of the requests of the browser and of the transcribe routes  *)
(***************************************************************************)

\* C16: a failed vendor call is never retried: one activation of Generate
\* Summary or of Transcribe Audio sends at most one request to a summarize
\* or transcribe endpoint, none after a non-ok response.
C16_AtMostOneRequestPerActivation == Len(requests) <= 1

\* C19: a successful transcription response of either provider endpoint
\* carries the transcript text and the speaker segments the Speaker
\* Segmenter computes from that text.
C19_TranscriptionCarriesTextAndSegments ==
  (/\ routePc = "done"
   /\ request.route \in {"/api/transcribe", "/api/transcribe/google"}
   /\ response.status = 200) =>
    /\ HasMember(response.body, "text")
    /\ Member(response.body, "text") = JStr(vendorReply.text)
    /\ HasMember(response.body, "speakers")
    /\ pc = "done"
    /\ text = vendorReply.text
    /\ Member(response.body, "speakers") = SegmentsToJson(speakers)


(***************************************************************************)
(* Properties of the summary view's plain-text export                      *)
(***************************************************************************)
ExportHeadings ==
  <<"KEY TOPICS:", "MEDICATIONS MENTIONED:", "ACTION ITEMS:", "PATIENT CONCERNS:",
    "PHARMACIST RECOMMENDATIONS:">>

\* The lines of an exported text: the pieces between its line feeds.
RECURSIVE LinesFrom(_, _)
LinesFrom(t, p) ==
  LET feeds == {q \in p..(Len(t) - 1) : CharAt(t, q) = "\n"}
  IN  IF feeds = {} THEN <<Sub(t, p, Len(t))>>
      ELSE LET q == CHOOSE q \in feeds : \A x \in feeds : q <= x
           IN  <<Sub(t, p, q)>> \o LinesFrom(t, q + 1)

ExportListsEveryItem(t) ==
  LET lines == LinesFrom(t, 0)
      HeadingAt(h) == {k \in 1..Len(lines) : lines[k] = ExportHeadings[h]}
      at == [h \in 1..6 |-> IF h = 6 \/ HeadingAt(h) = {} THEN Len(lines) + 1
                            ELSE CHOOSE k \in HeadingAt(h) : TRUE]
      IsBullet(line) == StartsAt(line, 0, Bullet)
      under == [h \in 1..5 |->
                 LET section == SelectSeq(SubSeq(lines, at[h] + 1, at[h + 1] - 1), IsBullet)
                 IN  [k \in 1..Len(section) |->
                        Sub(section[k], Len(Bullet), Len(section[k]))]]
  IN  /\ \A h \in 1..5 : Cardinality(HeadingAt(h)) = 1
      /\ \A h \in 1..5 : at[h] < at[h + 1]
      /\ under[1] = data.keyTopics
      /\ Len(under[2]) = Len(data.medications)
      /\ \A k \in 1..Len(under[2]) : StartsAt(under[2][k], 0, data.medications[k].name)
      /\ under[3] = data.actionItems
      /\ under[4] = data.patientConcerns
      /\ under[5] = data.pharmacistRecommendations

\* C18: the text generateSummaryText produces has the five headings, each
\* once and in the order KEY TOPICS, MEDICATIONS MENTIONED, ACTION ITEMS,
\* PATIENT CONCERNS, PHARMACIST RECOMMENDATIONS, and under each heading one
\* bullet line per item of the corresponding field, in the field's order:
\* the item itself for the string fields, a line that begins with the
\* medication's name for the medications.
C18_ExportListsEveryItemOnceInOrder ==
  \A t \in {clipboard, pdfText} \ {""} : ExportListsEveryItem(t)

\* A summary with two topics, two medications and two recommendations has
\* been copied to the clipboard.
C18_Witness ==
  /\ clipboard # ""
  /\ data.keyTopics = <<"Refill Request", "Side Effects">>
  /\ Len(data.medications) = 2
  /\ data.medications[1].name = "Lisinopril"
  /\ data.medications[2].name = "Aspirin"
  /\ Len(data.pharmacistRecommendations) = 2
  /\ data.actionItems = <<>>
  /\ data.patientConcerns = <<"Cost and insurance">>


(***************************************************************************)
(* Properties of the transcription view's editor                           *)
(***************************************************************************)
IsTranscriptSegment(seg) ==
  /\ seg.text # ""
  /\ seg.speaker \in {"Pharmacist", "Patient"}
  /\ seg.timestamp \in Nat

\* C20: every speaker segment the mounted transcription view holds, after
\* any sequence of Edit, text changes and Save, has a non-empty text, the
\* speaker Pharmacist or Patient, and a natural number as timestamp.
C20_ViewHoldsTranscriptSegments ==
  mounted => \A k \in 1..Len(editedSpeakers) : IsTranscriptSegment(editedSpeakers[k])


(***************************************************************************)
(* Properties of the Speaker Segmenter's question test                     *)
(***************************************************************************)
HasQuestionWord(sentence) ==
  \E w \in {"what", "how", "when", "why", "can you", "could you"} :
    Includes(ToLowerCase(sentence), w)

NoSentenceHasQuestionMark ==
  \A k \in 1..Len(sentences) : ~Includes(sentences[k], "?")

\* The iteration about to run is on a sentence without a question word.
AtSentenceWithoutQuestionWord ==
  /\ pc = "loop"
  /\ i < Len(sentences)
  /\ ~HasQuestionWord(sentences[i + 1])

\* C29: no sentence of the split contains the question mark, and an
\* iteration of the loop on a sentence that contains none of the six
\* question words never changes the current speaker to Patient, whatever
\* punctuation ended the sentence in the transcript.
C29_QuestionMarkNeverDecides ==
  /\ []NoSentenceHasQuestionMark
  /\ [][(AtSentenceWithoutQuestionWord /\ currentSpeaker # "Patient")
          => currentSpeaker' # "Patient"]_vars

\* The transcript "yes. Sure?! " has been segmented: its second sentence ended
\* with a question mark, holds no question word, and the one segment is the
\* Pharmacist's.
C29_Witness ==
  /\ pc = "done"
  /\ text = "yes. Sure?! "
  /\ Len(sentences) = 2
  /\ Len(speakers) = 1
  /\ speakers[1].speaker = "Pharmacist"


\* C24: when the view is not being edited and its text is the text it was
\* mounted with (Edit and then Save without a change of the text), the
\* segments it holds are the segments received from the transcription:
\* as many, each with the same speaker, text and timestamp.
C24_SaveWithoutChangeKeepsSegments ==
  (mounted /\ ~isEditing /\ editedText = text) => editedSpeakers = speakers


(***************************************************************************)
(* Properties of the browser handlers                                      *)
(***************************************************************************)
\* An activation of Generate Summary has ended on a non-ok response.
SummaryRequestFailed ==
  /\ clientPc = "finished"
  /\ requests # <<>>
  /\ requests[Len(requests)].route = "/api/summarize"
  /\ ~Ok(response)

\* C21: when a summary request has failed, the message alerted is the one
\* chosen for the error text of the server's response (the quota message for
\* a quota error, and so on), whichever summarizer is selected.
C21_AlertChosenFromServerError ==
  SummaryRequestFailed =>
    alerted = SummaryAlert(IF ErrorOf(response.body) # "" THEN ErrorOf(response.body)
                           ELSE "Summary generation failed")


\* C22: once an activation of Generate Summary or Transcribe Audio has set
\* the loading flag, the flag is eventually false again, whether the
\* activation succeeds or fails, given that every request is answered.
C22_LoadingEventuallyCleared == isLoading ~> ~isLoading

\* An activation that set the loading flag has ended on a failure: the flag
\* is false and a message was alerted.
C22_Witness ==
  /\ clientPc = "finished"
  /\ requests # <<>>
  /\ ~Ok(response)
  /\ alerted # ""
  /\ ~isLoading


(***************************************************************************)
(* Properties of the main page                                             *)
(***************************************************************************)
\* C23: while a transcription or summary request started by the page is in
\* flight, the loading flag is true, also when several activations overlap.
C23_LoadingWhileInFlight == inFlight # {} => isLoading

\* C27: whenever the summary view can be shown (summary data is stored), the
\* stored summary was generated from the transcription that is stored.
C27_SummaryIsOfStoredTranscription ==
  ~Falsy(pageSummaryData) => summaryOf = transcriptionNo

Present(value) == value # JLit("null")

PageViewsHaveData ==
  /\ currentView = "transcription" => Present(pageTranscriptionData)
  /\ currentView = "summary" => Present(pageSummaryData)
  /\ ~Disabled("transcription") <=> Present(pageTranscriptionData)
  /\ ~Disabled("summary") <=> Present(pageSummaryData)

\* C30: the transcription view is the current view only if transcription
\* data is present and the summary view only if summary data is present; a
\* navigation tab is enabled exactly when its data is present; and data that
\* is present stays present in every step.
C30_ViewsAndTabsFollowData ==
  /\ []PageViewsHaveData
  /\ [][/\ Present(pageTranscriptionData) => Present(pageTranscriptionData')
        /\ Present(pageSummaryData) => Present(pageSummaryData')]_vars

(***************************************************************************)
(* Properties of the settings panel                                        *)
(***************************************************************************)
SavedUntouched == ~isSettingsOpen /\ lastClick = "save" /\ ~touched

\* C25: after the panel was opened and Save Settings pressed with no control
\* used in between, the settings in use and the item in localStorage are
\* what they were when the panel was opened, also when the settings in use
\* had been loaded from localStorage.
C25_SaveUntouchedChangesNothing ==
  SavedUntouched => (settings = openedWith.settings /\ stored = openedWith.stored)

\* C26: after Cancel or the close button the settings in use and the item
\* in localStorage are what they were when the panel was opened; and after
\* changes were dismissed, the panel reopened and Save Settings pressed with
\* no control used, the settings in use are still those of before.
C26_DismissedChangesAreDiscarded ==
  /\ (~isSettingsOpen /\ lastClick = "cancel")
       => (settings = openedWith.settings /\ stored = openedWith.stored)
  /\ (SavedUntouched /\ discarded) => settings = openedWith.settings

(***************************************************************************)
(* Properties of the audio recorder                                        *)
(***************************************************************************)
\* C28: in every state in which Transcribe Audio is offered, the audio it
\* sends is the audio the player is loaded with, which is the audio that
\* was provided last, be it a recording or an uploaded file.
C28_SendsThePlayersAudio ==
  TranscribeOffered => (fileToTranscribe = audioUrl /\ audioUrl = provided)

====
